---------------------------- MODULE Spec2Model ----------------------------
(***************************************************************************)
(* Event recognition, normalisation and dispatch of packit-service:        *)
(* Parser.parse_event and the keyed comment dispatch (worker/parser.py),   *)
(* the per-source extractors (worker/events/github.py, gitlab.py,          *)
(* pagure.py, testing_farm.py, new_hotness.py) and the check-name grammar  *)
(* CheckRerunEvent.parse_check_name.                                       *)
(*                                                                         *)
(* A payload is a finite map from leaf paths ("repository.html_url") to    *)
(* string values; a dict node of the JSON payload exists exactly when one  *)
(* of the leaves below it does.  A text that the code takes apart (a check *)
(* name, a git ref, a topic) is a sequence of symbols, split as the code   *)
(* splits it.  Optional values are sequences of length 0 (None) or 1.      *)
(***************************************************************************)
EXTENDS Naturals, Sequences, FiniteSets, TLC

VARIABLES
    pc,             \* "idle" before a call, "done" after it
    entry,          \* the operation that ran
    deployment,     \* ServiceConfig.get_service_config().deployment
    db,             \* ProjectEventModel rows: id -> project event object
    tf_known,       \* request ids Testing Farm can give details of
    event,          \* the payload handed to the operation
    result,         \* what the operation returned or raised
    calls,          \* the extractors the operation invoked, in order
    check_name,     \* parse_check_name: the check run's name
    project_object, \* parse_check_name: the Project Event's object
    check_result,   \* parse_check_name: Optional[Tuple[job, target, identifier]]
    workers,        \* parallel parse_event calls: payload, position, outcome, I/O
    hotness_events, \* NewHotnessUpdateEvent instances: their private fields
    release_db,     \* the release and project-event rows add_release_event keeps
    osh             \* OpenScanHubHelper.handle_scan: position, locals, calls made

\* What one call of an entry point of the parser reads and leaves.
parser_vars == <<pc, entry, deployment, db, tf_known, event, result, calls,
                 check_name, project_object, check_result>>

\* The state of the other operations, untouched by a call of the parser.
other_vars == <<workers, hotness_events, release_db, osh>>

vars == <<pc, entry, deployment, db, tf_known, event, result, calls,
          check_name, project_object, check_result,
          workers, hotness_events, release_db, osh>>

----------------------------------------------------------------------------
(* Optional values *)

None == << >>
Some(x) == <<x>>

----------------------------------------------------------------------------
(* Check-Name Grammar: CheckRerunEvent.parse_check_name                     *)

\* A check name is a sequence of symbols; ":" is the delimiter, every other
\* symbol stands for a run of non-colon characters.
Colon == ":"

\* Bounds of the names the grammar is checked on.
MaxSegments == 5

\* handlers/abstract.py is outside the sources at hand: the registered
\* check prefixes (run_for_check_rerun) and the helpers' status names.
MAP_CHECK_PREFIX_TO_HANDLER ==
    {<<"rpm-build">>, <<"testing-farm">>, <<"koji-build">>,
     <<"propose-downstream">>, <<"vm-image-build">>}

build_test_job_names ==
    {<<"rpm-build">>, <<"testing-farm">>, <<"koji-build">>}

\* models.py: the job_config_trigger_type of each project event object.
job_config_trigger_type(obj) ==
    CASE obj = "PullRequestModel"    -> "pull_request"
      [] obj = "ProjectReleaseModel" -> "release"
      [] obj = "GitBranchModel"      -> "commit"
      [] OTHER                       -> "none"

ProjectObjectTypes ==
    {"PullRequestModel", "ProjectReleaseModel", "GitBranchModel", "IssueModel"}

\* The position of the first ":" of s at or after i, Len(s) + 1 when none.
RECURSIVE FindColon(_, _)
FindColon(s, i) ==
    IF i > Len(s) THEN Len(s) + 1
    ELSE IF s[i] = Colon THEN i
    ELSE FindColon(s, i + 1)

\* str.split(":", maxsplit): at most maxsplit splits, the rest kept whole.
RECURSIVE Split(_, _)
Split(s, maxsplit) ==
    LET k == FindColon(s, 1) IN
    IF maxsplit = 0 \/ k > Len(s) THEN <<s>>
    ELSE <<SubSeq(s, 1, k - 1)>> \o Split(SubSeq(s, k + 1, Len(s)), maxsplit - 1)

\* ":".join(parts)
RECURSIVE Join(_)
Join(parts) ==
    IF Len(parts) = 0 THEN << >>
    ELSE IF Len(parts) = 1 THEN parts[1]
    ELSE parts[1] \o <<Colon>> \o Join(Tail(parts))

\* A Python string is truthy when it is not empty.
NonEmpty(s) == Len(s) > 0

\* Variants of check_name_fields that assign the fields differently.
check_name_fields_identifier_lost(parts, obj) ==
    IF Len(parts) = 2 THEN [target |-> Some(parts[2]), identifier |-> None]
    ELSE IF Len(parts) = 3 THEN
        IF /\ parts[1] \in build_test_job_names
           /\ job_config_trigger_type(obj) \in {"commit", "release"}
        THEN [target |-> Some(parts[3]), identifier |-> None]
        ELSE [target |-> Some(parts[2]), identifier |-> None]
    ELSE IF Len(parts) = 4 THEN [target |-> Some(parts[3]), identifier |-> Some(parts[4])]
    ELSE [target |-> None, identifier |-> None]

check_name_fields_2_by_trigger(parts, obj) ==
    IF Len(parts) = 2 THEN
        IF job_config_trigger_type(obj) \in {"commit", "release"}
        THEN [target |-> None, identifier |-> None]
        ELSE [target |-> Some(parts[2]), identifier |-> None]
    ELSE IF Len(parts) = 3 THEN
        IF /\ parts[1] \in build_test_job_names
           /\ job_config_trigger_type(obj) \in {"commit", "release"}
        THEN [target |-> Some(parts[3]), identifier |-> None]
        ELSE [target |-> Some(parts[2]), identifier |-> Some(parts[3])]
    ELSE IF Len(parts) = 4 THEN [target |-> Some(parts[3]), identifier |-> Some(parts[4])]
    ELSE [target |-> None, identifier |-> None]

check_name_fields_never_discards(parts, obj) ==
    IF Len(parts) = 2 THEN [target |-> Some(parts[2]), identifier |-> None]
    ELSE IF Len(parts) = 3 THEN [target |-> Some(parts[2]), identifier |-> Some(parts[3])]
    ELSE IF Len(parts) = 4 THEN [target |-> Some(parts[3]), identifier |-> Some(parts[4])]
    ELSE [target |-> None, identifier |-> None]

check_name_fields_always_discards(parts, obj) ==
    IF Len(parts) = 2 THEN [target |-> Some(parts[2]), identifier |-> None]
    ELSE IF Len(parts) = 3 THEN [target |-> Some(parts[3]), identifier |-> None]
    ELSE IF Len(parts) = 4 THEN [target |-> Some(parts[3]), identifier |-> Some(parts[4])]
    ELSE [target |-> None, identifier |-> None]

check_name_fields_4_keeps_2(parts, obj) ==
    IF Len(parts) = 2 THEN [target |-> Some(parts[2]), identifier |-> None]
    ELSE IF Len(parts) = 3 THEN
        IF /\ parts[1] \in build_test_job_names
           /\ job_config_trigger_type(obj) \in {"commit", "release"}
        THEN [target |-> Some(parts[3]), identifier |-> None]
        ELSE [target |-> Some(parts[2]), identifier |-> Some(parts[3])]
    ELSE IF Len(parts) = 4 THEN [target |-> Some(parts[2]), identifier |-> Some(parts[4])]
    ELSE [target |-> None, identifier |-> None]

\* check_name_target, check_name_identifier by the number of parts; the
\* target stays None for one part (other lengths cannot come out of split).
check_name_fields(parts, obj) ==
    IF Len(parts) = 2 THEN [target |-> Some(parts[2]), identifier |-> None]
    ELSE IF Len(parts) = 3 THEN
        IF /\ parts[1] \in build_test_job_names
           /\ job_config_trigger_type(obj) \in {"commit", "release"}
        THEN [target |-> Some(parts[3]), identifier |-> None]
        ELSE [target |-> Some(parts[2]), identifier |-> Some(parts[3])]
    ELSE IF Len(parts) = 4 THEN [target |-> Some(parts[3]), identifier |-> Some(parts[4])]
    ELSE [target |-> None, identifier |-> None]

\* A variant that looks at the job name only after the fields are assigned,
\* and only to refuse an empty one.
parse_check_name_prefix_unchecked(name, obj) ==
    LET parts == Split(name, 3)
        job == parts[1]
        fields == check_name_fields(parts, obj)
    IN  IF fields.target = None THEN None
        ELSE IF ~NonEmpty(job) \/ ~NonEmpty(fields.target[1]) THEN None
        ELSE Some([job |-> job, target |-> fields.target[1],
                   identifier |-> fields.identifier])

\* A variant without the test that the target is not empty.
parse_check_name_keeps_empty_target(name, obj) ==
    LET parts == Split(name, 3)
        job == parts[1]
        fields == check_name_fields(parts, obj)
    IN  IF job \notin MAP_CHECK_PREFIX_TO_HANDLER THEN None
        ELSE IF fields.target = None THEN None
        ELSE Some([job |-> job, target |-> fields.target[1],
                   identifier |-> fields.identifier])

parse_check_name(name, obj) ==
    LET parts == Split(name, 3)
        job == parts[1]
        fields == check_name_fields(parts, obj)
    IN  IF job \notin MAP_CHECK_PREFIX_TO_HANDLER THEN None
        ELSE IF fields.target = None THEN None
        \* `not (check_name_job and check_name_target)`: an empty target
        ELSE IF ~NonEmpty(fields.target[1]) THEN None
        ELSE Some([job |-> job, target |-> fields.target[1],
                   identifier |-> fields.identifier])

\* The collaborator calls parse_check_name makes: the Project Event is asked
\* for its object only once the job name was found among the handlers.
parse_check_name_calls(name) ==
    IF Split(name, 3)[1] \notin MAP_CHECK_PREFIX_TO_HANDLER THEN << >>
    ELSE <<"get_project_event_object">>

\* The words a name's segments are drawn from; "" is the empty segment.
JobWords == {<<"rpm-build">>, <<"testing-farm">>, <<"koji-build">>,
             <<"propose-downstream">>, <<"vm-image-build">>}
OtherWords == {<<"main">>, <<"fedora-34-x86_64">>, <<"myid">>}
SegmentWords == OtherWords \cup {<< >>}

RECURSIVE SeqsUpTo(_, _)
SeqsUpTo(S, n) ==
    IF n = 0 THEN {<< >>}
    ELSE LET shorter == SeqsUpTo(S, n - 1)
         IN  shorter \cup {<<x>> \o s : x \in S, s \in {t \in shorter : Len(t) = n - 1}}

\* Every name of 1..MaxSegments joined segments.
CheckNames ==
    {Join(<<first>> \o rest) :
        first \in JobWords \cup SegmentWords,
        rest \in SeqsUpTo(SegmentWords, MaxSegments - 1)}

NoCheckResult == None

InitCommon ==
    /\ pc = "idle"
    /\ entry = "none"
    /\ check_name = << >>
    /\ project_object = "PullRequestModel"
    /\ check_result = NoCheckResult

ParseCheckName ==
    /\ pc = "idle"
    /\ \E name \in CheckNames, obj \in ProjectObjectTypes :
        /\ check_name' = name
        /\ project_object' = obj
        /\ check_result' = parse_check_name(name, obj)
        /\ calls' = parse_check_name_calls(name)
    /\ pc' = "done"
    /\ entry' = "parse_check_name"
    /\ UNCHANGED <<deployment, db, tf_known, event, result>>
    /\ UNCHANGED other_vars

----------------------------------------------------------------------------
(* Payloads                                                                 *)

\* A leaf the payload does not have, and a leaf that is None, "", 0, false
\* or an empty list: the two values Python treats as falsy after .get().
Absent == "<absent>"
Null == "<null>"

\* dict.get(key) / nested_get(event, *keys): None when the leaf is missing.
Get(e, p) == IF e[p] = Absent THEN Null ELSE e[p]
Truthy(v) == v \notin {Absent, Null}
\* event["a"]["b"]: raises KeyError when the leaf is missing.
Missing(e, p) == e[p] = Absent

\* JSON numbers are written "int:<n>"; str() of one gives its digits.
str(v) ==
    CASE v = "int:7"  -> "7"
      [] v = "int:12" -> "12"
      [] v = "int:55" -> "55"
      [] OTHER        -> v

URL_GITHUB == "https://github.com/packit/hello-world"
URL_GITLAB == "https://gitlab.com/testing/hello-there"
URL_GITLAB_FORK == "https://gitlab.com/forker/hello-there"
URL_PAGURE == "https://src.fedoraproject.org/rpms/hello"

\* ogr.parsing.parse_git_repo(potential_url): namespace and repo of a URL.
parse_git_repo(url) ==
    CASE url = URL_GITLAB      -> [namespace |-> "testing", repo |-> "hello-there"]
      [] url = URL_GITLAB_FORK -> [namespace |-> "forker", repo |-> "hello-there"]
      [] url = URL_GITHUB      -> [namespace |-> "packit", repo |-> "hello-world"]
      [] OTHER                 -> [namespace |-> "rpms", repo |-> "hello"]

\* raw_ref.split("/", maxsplit=2)[-1]
RefName(raw_ref) ==
    CASE raw_ref = "refs/heads/main"         -> "main"
      [] raw_ref = "refs/heads/feature/x"    -> "feature/x"
      [] raw_ref = "refs/tags/v1.0"          -> "v1.0"
      [] OTHER                               -> raw_ref

\* Fedora-messaging topics, as their dot-separated parts.
T_PUSH_PROD == "org.fedoraproject.prod.git.receive"
T_PUSH_STG == "org.fedoraproject.stg.git.receive"
T_PR_COMMENT_ADDED == "org.fedoraproject.prod.pagure.pull-request.comment.added"
T_PR_COMMENT_EDITED == "org.fedoraproject.prod.pagure.pull-request.comment.edited"
T_PR_FLAG_ADDED == "org.fedoraproject.prod.pagure.pull-request.flag.added"
T_PR_FLAG_UPDATED == "org.fedoraproject.stg.pagure.pull-request.flag.updated"
T_HOTNESS == "org.fedoraproject.prod.hotness.update.bug.file"
T_COPR_END == "org.fedoraproject.prod.copr.build.end"
T_KOJI_TASK == "org.fedoraproject.prod.buildsys.task.state.change"
T_KOJI_BUILD == "org.fedoraproject.prod.buildsys.build.state.change"

TopicParts(topic) ==
    CASE topic = T_PUSH_PROD -> <<"org", "fedoraproject", "prod", "git", "receive">>
      [] topic = T_PUSH_STG -> <<"org", "fedoraproject", "stg", "git", "receive">>
      [] topic = T_PR_COMMENT_ADDED ->
            <<"org", "fedoraproject", "prod", "pagure", "pull-request", "comment", "added">>
      [] topic = T_PR_COMMENT_EDITED ->
            <<"org", "fedoraproject", "prod", "pagure", "pull-request", "comment", "edited">>
      [] topic = T_PR_FLAG_ADDED ->
            <<"org", "fedoraproject", "prod", "pagure", "pull-request", "flag", "added">>
      [] topic = T_PR_FLAG_UPDATED ->
            <<"org", "fedoraproject", "stg", "pagure", "pull-request", "flag", "updated">>
      [] topic = T_HOTNESS ->
            <<"org", "fedoraproject", "prod", "hotness", "update", "bug", "file">>
      [] topic = T_COPR_END -> <<"org", "fedoraproject", "prod", "copr", "build", "end">>
      [] topic = T_KOJI_TASK ->
            <<"org", "fedoraproject", "prod", "buildsys", "task", "state", "change">>
      [] topic = T_KOJI_BUILD ->
            <<"org", "fedoraproject", "prod", "buildsys", "build", "state", "change">>
      [] OTHER -> << >>

\* parts occurs in whole as consecutive parts of the topic, starting at i
PartsAt(tp, parts, i) ==
    /\ i + Len(parts) - 1 <= Len(tp)
    /\ \A k \in 1..Len(parts) : tp[i + k - 1] = parts[k]

\* "a.b" in topic, for whole parts a, b
ContainsParts(topic, parts) ==
    LET tp == TopicParts(topic) IN \E i \in 1..Len(tp) : PartsAt(tp, parts, i)

\* ".a.b." in topic: the parts with one part before and one after them
ContainsInnerParts(topic, parts) ==
    LET tp == TopicParts(topic)
    IN  \E i \in 2..Len(tp) : PartsAt(tp, parts, i) /\ i + Len(parts) <= Len(tp)

----------------------------------------------------------------------------
(* What a call gives back: None, an event, or an exception                  *)

NoEvent == [kind |-> "none"]
Raised(exc) == [kind |-> "raise", exc |-> exc]
Produced(ev) == [kind |-> "event", ev |-> ev]

\* The leaves below a dict node of the payload.
NodeLeaves(node) ==
    CASE node = "pull_request" ->
            {"pull_request.head.repo.owner.login", "pull_request.head.repo.name",
             "pull_request.head.sha", "pull_request.user.login",
             "pull_request.base.repo.owner.login", "pull_request.base.repo.name"}
      [] node = "release" -> {"release.tag_name", "release.id"}
      [] node = "check_run" ->
            {"check_run.name", "check_run.app.slug", "check_run.external_id",
             "check_run.head_sha"}
      [] node = "installation.account" ->
            {"installation.account.login", "installation.account.id",
             "installation.account.url", "installation.account.type"}
      [] node = "sender" -> {"sender.id", "sender.login"}
      [] node = "merge_request" ->
            {"merge_request.state", "merge_request.action", "merge_request.iid",
             "merge_request.id", "merge_request.source.web_url",
             "merge_request.last_commit.id", "merge_request.url"}
      [] node = "issue.pull_request" -> {"issue.pull_request.url"}
      [] node = "issue" ->
            {"issue.pull_request.url", "issue.number", "issue.user.login",
             "issue.iid", "issue.state"}
      [] node = "commits" ->
            {"commits.0.id", "commits.0.title", "commits.1.id", "commits.1.title"}
      [] node = "flag" ->
            {"flag.username", "flag.comment", "flag.status", "flag.date_updated",
             "flag.url", "flag.commit_hash"}
      [] OTHER -> {}

\* event.get(node) is truthy: the node is a dict with something in it.
HasNode(e, node) == \E p \in NodeLeaves(node) : e[p] # Absent

----------------------------------------------------------------------------
(* Persistence and service collaborators                                    *)

Deployments == {"prod", "stg", "dev"}

\* ProjectEventModel.get_by_id(id)
get_by_id(id) == IF id \in DOMAIN db THEN Some(db[id]) ELSE None

\* int(external_id): None when the text is not a number (ValueError).
int(v) ==
    CASE v = "1" -> Some(1)
      [] v = "2" -> Some(2)
      [] v = "3" -> Some(3)
      [] v = "4" -> Some(4)
      [] v = "9" -> Some(9)
      [] OTHER   -> None

\* TestingFarmJobHelper.get_request_details(request_id): falsy when unknown.
get_request_details(request_id) ==
    IF request_id \in tf_known THEN Some([id |-> request_id]) ELSE None

\* The symbols of a check run's name.
NameSymbols(name) ==
    CASE name = "rpm-build:fedora-34-x86_64" ->
            <<"rpm-build", Colon, "fedora-34-x86_64">>
      [] name = "rpm-build:main:fedora-34-x86_64" ->
            <<"rpm-build", Colon, "main", Colon, "fedora-34-x86_64">>
      [] name = "rpm-build:fedora-34-x86_64:myid" ->
            <<"rpm-build", Colon, "fedora-34-x86_64", Colon, "myid">>
      [] name = "rpm-build:main:fedora-34-x86_64:myid" ->
            <<"rpm-build", Colon, "main", Colon, "fedora-34-x86_64", Colon, "myid">>
      [] name = "propose-downstream:f35" ->
            <<"propose-downstream", Colon, "f35">>
      [] name = "testing-farm:fedora-34-x86_64" ->
            <<"testing-farm", Colon, "fedora-34-x86_64">>
      [] name = "rpm-build" -> <<"rpm-build">>
      [] name = "rpm-build:" -> <<"rpm-build", Colon>>
      [] name = "copr-build:fedora-34-x86_64" ->
            <<"copr-build", Colon, "fedora-34-x86_64">>
      [] name = "koji-build:f35" -> <<"koji-build", Colon, "f35">>
      [] name = "vm-image-build:fedora-34-x86_64" ->
            <<"vm-image-build", Colon, "fedora-34-x86_64">>
      [] OTHER -> <<name>>

----------------------------------------------------------------------------
(* GitHub extractors: worker/events/github.py                               *)

ReleaseEvent_parse(e) ==
    IF Get(e, "action") # "published" \/ ~HasNode(e, "release") THEN NoEvent
    ELSE IF ~(Truthy(e["repository.owner.login"]) /\ Truthy(e["repository.name"]))
    THEN NoEvent
    ELSE IF ~Truthy(e["release.tag_name"]) THEN NoEvent
    ELSE IF Missing(e, "repository.html_url") THEN Raised("KeyError")
    ELSE Produced([cls |-> "ReleaseEvent",
                   repo_namespace |-> e["repository.owner.login"],
                   repo_name |-> e["repository.name"],
                   tag_name |-> e["release.tag_name"],
                   git_ref |-> e["release.tag_name"],
                   identifier |-> e["release.tag_name"],
                   project_url |-> e["repository.html_url"]])

\* A variant that does not look at "deleted".
PushGitHubEvent_parse_ignores_deleted(e) ==
    LET raw_ref == Get(e, "ref")
        before == Get(e, "before")
        pusher == Get(e, "pusher.name")
        \* event.get("head") or event.get("after") or event.get("head_commit")
        head_is_dict == ~Truthy(e["head"]) /\ ~Truthy(e["after"])
                        /\ Truthy(e["head_commit.id"])
        head_commit == IF Truthy(e["head"]) THEN e["head"]
                       ELSE IF Truthy(e["after"]) THEN e["after"]
                       ELSE Get(e, "head_commit.id")
    IN  IF ~(Truthy(raw_ref) /\ Truthy(head_commit) /\ Truthy(before) /\ Truthy(pusher))
        THEN NoEvent
        \* head_commit[:8] in the log line: head_commit is a dict here
        ELSE IF head_is_dict THEN Raised("TypeError")
        ELSE IF ~(Truthy(e["repository.owner.login"]) /\ Truthy(e["repository.name"]))
        THEN NoEvent
        ELSE Produced([cls |-> "PushGitHubEvent",
                       repo_namespace |-> e["repository.owner.login"],
                       repo_name |-> e["repository.name"],
                       git_ref |-> RefName(raw_ref),
                       identifier |-> RefName(raw_ref),
                       project_url |-> Get(e, "repository.html_url"),
                       commit_sha |-> head_commit])

PushGitHubEvent_parse(e) ==
    LET raw_ref == Get(e, "ref")
        before == Get(e, "before")
        pusher == Get(e, "pusher.name")
        \* event.get("head") or event.get("after") or event.get("head_commit")
        head_is_dict == ~Truthy(e["head"]) /\ ~Truthy(e["after"])
                        /\ Truthy(e["head_commit.id"])
        head_commit == IF Truthy(e["head"]) THEN e["head"]
                       ELSE IF Truthy(e["after"]) THEN e["after"]
                       ELSE Get(e, "head_commit.id")
    IN  IF ~(Truthy(raw_ref) /\ Truthy(head_commit) /\ Truthy(before) /\ Truthy(pusher))
        THEN NoEvent
        ELSE IF Truthy(e["deleted"]) THEN NoEvent
        \* head_commit[:8] in the log line: head_commit is a dict here
        ELSE IF head_is_dict THEN Raised("TypeError")
        ELSE IF ~(Truthy(e["repository.owner.login"]) /\ Truthy(e["repository.name"]))
        THEN NoEvent
        ELSE Produced([cls |-> "PushGitHubEvent",
                       repo_namespace |-> e["repository.owner.login"],
                       repo_name |-> e["repository.name"],
                       git_ref |-> RefName(raw_ref),
                       identifier |-> RefName(raw_ref),
                       project_url |-> Get(e, "repository.html_url"),
                       commit_sha |-> head_commit])

PullRequestGithubEvent_parse(e) ==
    IF ~HasNode(e, "pull_request") THEN NoEvent
    ELSE IF Get(e, "action") \notin {"opened", "reopened", "synchronize"}
            \/ ~Truthy(e["number"])
    THEN NoEvent
    ELSE IF ~(Truthy(e["pull_request.head.repo.name"])
              /\ Truthy(e["pull_request.head.repo.owner.login"]))
    THEN NoEvent
    ELSE IF ~Truthy(e["pull_request.head.sha"]) THEN NoEvent
    ELSE IF ~Truthy(e["pull_request.user.login"]) THEN NoEvent
    ELSE IF Missing(e, "repository.html_url") THEN Raised("KeyError")
    ELSE Produced([cls |-> "PullRequestGithubEvent",
                   action |-> e["action"],
                   pr_id |-> e["number"],
                   base_repo_namespace |-> e["pull_request.head.repo.owner.login"],
                   base_repo_name |-> e["pull_request.head.repo.name"],
                   base_ref |-> e["pull_request.head.sha"],
                   target_repo_namespace |-> Get(e, "pull_request.base.repo.owner.login"),
                   target_repo_name |-> Get(e, "pull_request.base.repo.name"),
                   project_url |-> e["repository.html_url"],
                   commit_sha |-> e["pull_request.head.sha"],
                   actor |-> e["pull_request.user.login"],
                   identifier |-> str(e["number"]),
                   git_ref |-> Null])

PullRequestCommentGithubEvent_parse(e) ==
    IF ~HasNode(e, "issue.pull_request") THEN NoEvent
    ELSE IF Get(e, "action") \notin {"created", "edited"} \/ ~Truthy(e["issue.number"])
    THEN NoEvent
    ELSE IF ~(Truthy(e["repository.name"]) /\ Truthy(e["issue.user.login"]))
    THEN NoEvent
    ELSE IF ~Truthy(e["comment.user.login"]) THEN NoEvent
    ELSE IF e["comment.user.login"]
            \in {"packit-as-a-service[bot]", "packit-as-a-service-stg[bot]"}
    THEN NoEvent
    ELSE IF Missing(e, "repository.html_url") THEN Raised("KeyError")
    ELSE Produced([cls |-> "PullRequestCommentGithubEvent",
                   action |-> e["action"],
                   pr_id |-> e["issue.number"],
                   base_repo_namespace |-> e["issue.user.login"],
                   base_repo_name |-> Null,
                   base_ref |-> Null,
                   target_repo_namespace |-> Get(e, "repository.owner.login"),
                   target_repo_name |-> e["repository.name"],
                   project_url |-> e["repository.html_url"],
                   actor |-> e["comment.user.login"],
                   comment |-> Get(e, "comment.body"),
                   comment_id |-> Get(e, "comment.id"),
                   identifier |-> str(e["issue.number"]),
                   git_ref |-> Null])

IssueCommentEvent_parse(e) ==
    IF HasNode(e, "issue.pull_request") THEN NoEvent
    ELSE IF Get(e, "action") # "created" \/ ~Truthy(e["issue.number"]) THEN NoEvent
    ELSE IF ~(Truthy(e["comment.body"]) /\ Truthy(e["comment.id"])) THEN NoEvent
    \* a missing repository owner or name is logged, and parsing goes on
    ELSE IF ~Truthy(e["comment.user.login"]) THEN NoEvent
    ELSE Produced([cls |-> "IssueCommentEvent",
                   action |-> e["action"],
                   issue_id |-> e["issue.number"],
                   repo_namespace |-> Get(e, "repository.owner.login"),
                   repo_name |-> Get(e, "repository.name"),
                   target_repo |-> Get(e, "repository.full_name"),
                   project_url |-> Get(e, "repository.html_url"),
                   actor |-> e["comment.user.login"],
                   comment |-> e["comment.body"],
                   comment_id |-> e["comment.id"],
                   base_ref |-> "master",
                   identifier |-> str(e["issue.number"])])

\* A variant that takes the sub-variant from the check name: a name with an
\* identifier is a commit's, any other a pull request's.
CheckRerunVariant_by_check_name(e, obj, parsed) ==
    LET common == [repo_namespace |-> e["repository.owner.login"],
                   repo_name |-> e["repository.name"],
                   project_url |-> e["repository.html_url"],
                   commit_sha |-> Get(e, "check_run.head_sha"),
                   actor |-> Get(e, "sender.login"),
                   check_name_job |-> parsed.job,
                   check_name_target |-> parsed.target,
                   job_identifier |-> parsed.identifier]
    IN  IF parsed.identifier = None
        THEN Produced(common @@ [cls |-> "CheckRerunPullRequestEvent",
                                 pr_id |-> obj.pr_id,
                                 identifier |-> str(obj.pr_id),
                                 git_ref |-> Null])
        ELSE Produced(common @@ [cls |-> "CheckRerunCommitEvent",
                                 identifier |-> obj.name,
                                 git_ref |-> obj.name])

\* The three sub-variants, chosen by the type of the Project Event's object.
CheckRerunVariant(e, obj, parsed) ==
    LET common == [repo_namespace |-> e["repository.owner.login"],
                   repo_name |-> e["repository.name"],
                   project_url |-> e["repository.html_url"],
                   commit_sha |-> Get(e, "check_run.head_sha"),
                   actor |-> Get(e, "sender.login"),
                   check_name_job |-> parsed.job,
                   check_name_target |-> parsed.target,
                   job_identifier |-> parsed.identifier]
    IN  IF obj.type = "PullRequestModel"
        THEN Produced(common @@ [cls |-> "CheckRerunPullRequestEvent",
                                 pr_id |-> obj.pr_id,
                                 identifier |-> str(obj.pr_id),
                                 git_ref |-> Null])
        ELSE IF obj.type = "ProjectReleaseModel"
        THEN Produced(common @@ [cls |-> "CheckRerunReleaseEvent",
                                 tag_name |-> obj.tag_name,
                                 identifier |-> obj.tag_name,
                                 git_ref |-> obj.tag_name])
        ELSE IF obj.type = "GitBranchModel"
        THEN Produced(common @@ [cls |-> "CheckRerunCommitEvent",
                                 identifier |-> obj.name,
                                 git_ref |-> obj.name])
        ELSE NoEvent

CheckRerunEvent_parse(e) ==
    LET check_run_name == Get(e, "check_run.name")
        app == Get(e, "check_run.app.slug")
        external_id == Get(e, "check_run.external_id")
    IN  IF ~(HasNode(e, "check_run") /\ Get(e, "action") = "rerequested") THEN NoEvent
        ELSE IF \/ (deployment = "prod" /\ app # "packit-as-a-service")
                \/ (deployment = "stg" /\ app # "packit-as-a-service-stg")
        THEN NoEvent
        ELSE IF ~Truthy(external_id) THEN NoEvent
        ELSE IF int(external_id) = None THEN Raised("ValueError")
        ELSE LET db_project_event == get_by_id(int(external_id)[1]) IN
        IF db_project_event = None THEN NoEvent
        \* check_name.split on a name that is None
        ELSE IF check_run_name = Null THEN Raised("AttributeError")
        ELSE LET obj == db_project_event[1]
                 parse_result == parse_check_name(NameSymbols(check_run_name), obj.type)
        IN  IF parse_result = None THEN NoEvent
            ELSE IF ~(Truthy(e["repository.owner.login"]) /\ Truthy(e["repository.name"]))
            THEN NoEvent
            ELSE IF Missing(e, "repository.html_url") THEN Raised("KeyError")
            ELSE CheckRerunVariant(e, obj, parse_result[1])

\* The properties of a CheckRerunEvent that narrow a rerun to the check's
\* target: Optional[Set[str]].
build_targets_override(ev) ==
    IF ev.check_name_job \in {<<"rpm-build">>, <<"production-build">>, <<"koji-build">>}
    THEN Some({ev.check_name_target})
    ELSE None

\* A variant that also narrows the tests of a build's check.
tests_targets_override_of_builds(ev) ==
    IF ev.check_name_job \in {<<"testing-farm">>, <<"rpm-build">>}
    THEN Some({ev.check_name_target})
    ELSE None

tests_targets_override(ev) ==
    IF ev.check_name_job = <<"testing-farm">>
    THEN Some({ev.check_name_target})
    ELSE None

branches_override(ev) ==
    IF ev.check_name_job = <<"propose-downstream">>
    THEN Some({ev.check_name_target})
    ELSE None

InstallationEvent_parse(e) ==
    IF ~HasNode(e, "installation.account") THEN NoEvent
    ELSE IF Missing(e, "action") THEN Raised("KeyError")
    ELSE IF e["action"] # "created" THEN NoEvent
    ELSE IF Missing(e, "installation.id") THEN Raised("KeyError")
    \* event['sender'] in the debug line, then the account's and sender's fields
    ELSE IF ~HasNode(e, "sender") THEN Raised("KeyError")
    ELSE IF \E p \in {"installation.account.login", "installation.account.id",
                      "installation.account.url", "installation.account.type",
                      "installation.created_at", "sender.id", "sender.login"} :
                Missing(e, p)
    THEN Raised("KeyError")
    ELSE Produced([cls |-> "InstallationEvent",
                   installation_id |-> e["installation.id"],
                   actor |-> e["installation.account.login"],
                   account_login |-> e["installation.account.login"],
                   account_id |-> e["installation.account.id"],
                   account_url |-> e["installation.account.url"],
                   account_type |-> e["installation.account.type"],
                   created_at |-> e["installation.created_at"],
                   repositories |-> Get(e, "repositories.0.full_name"),
                   sender_id |-> e["sender.id"],
                   sender_login |-> e["sender.login"]])

----------------------------------------------------------------------------
(* Testing Farm: worker/events/testing_farm.py                              *)

\* A variant that declines when the request's details cannot be fetched.
TestingFarmResultsEvent_parse_declines(e) ==
    IF Get(e, "source") # "testing-farm" \/ ~Truthy(e["request_id"]) THEN NoEvent
    ELSE IF get_request_details(e["request_id"]) = None THEN NoEvent
    ELSE Produced([cls |-> "TestingFarmResultsEvent",
                   pipeline_id |-> e["request_id"]])

\* The lookups TestingFarmResultsEvent.parse makes on a payload.
TestingFarmResultsEvent_lookups(e) ==
    IF Get(e, "source") # "testing-farm" \/ ~Truthy(e["request_id"]) THEN << >>
    ELSE <<"TFTTestRunTargetModel.get_by_pipeline_id",
           "TestingFarmJobHelper.get_request_details">>

TestingFarmResultsEvent_parse(e) ==
    IF Get(e, "source") # "testing-farm" \/ ~Truthy(e["request_id"]) THEN NoEvent
    ELSE IF get_request_details(e["request_id"]) = None THEN Raised("Exception")
    ELSE Produced([cls |-> "TestingFarmResultsEvent",
                   pipeline_id |-> e["request_id"]])

----------------------------------------------------------------------------
(* GitLab extractors: worker/events/gitlab.py                               *)

\* GitlabEventAction[action]: the enum has no other member (KeyError).
GitlabEventAction == {"opened", "reopen", "update"}

\* The all-zero sha GitLab sends as "after" when a ref is deleted.
ZERO_SHA == "0000000000000000000000000000000000000000"

\* after.startswith("0000000")
StartsWithZeros(sha) == sha = ZERO_SHA

\* AbstractGitlabEvent.is_push_create_event; "raise" for the AttributeError
\* of event.get("after").startswith when the payload has no "after".
is_push_create_event(e) ==
    IF ~(Truthy(e["ref"]) /\ HasNode(e, "commits") /\ Truthy(e["before"])
         /\ Truthy(e["user_username"]))
    THEN "false"
    ELSE IF ~Truthy(e["after"]) THEN "raise"
    ELSE IF StartsWithZeros(e["after"]) THEN "false"
    ELSE "true"

\* next(c for c in commits if c["id"] == checkout_sha): the index of the first
\* commit with that id; KeyError at a commit without an id, StopIteration
\* when the list ends.
RECURSIVE HeadCommitFrom(_, _)
HeadCommitFrom(e, indexes) ==
    IF Len(indexes) = 0 THEN [kind |-> "raise", exc |-> "StopIteration"]
    ELSE LET id == IF indexes[1] = "0" THEN "commits.0.id" ELSE "commits.1.id"
             title == IF indexes[1] = "0" THEN "commits.0.title" ELSE "commits.1.title"
         IN  IF e[id] = Absent /\ e[title] = Absent THEN HeadCommitFrom(e, Tail(indexes))
             ELSE IF e[id] = Absent THEN [kind |-> "raise", exc |-> "KeyError"]
             ELSE IF e[id] = Get(e, "checkout_sha") THEN [kind |-> "found", index |-> indexes[1]]
             ELSE HeadCommitFrom(e, Tail(indexes))

\* A variant that takes the first commit of the list for the head commit.
HeadCommit_takes_first(e) ==
    IF e["commits.0.id"] = Absent THEN [kind |-> "raise", exc |-> "KeyError"]
    ELSE [kind |-> "found", index |-> "0"]

HeadCommit(e) == HeadCommitFrom(e, <<"0", "1">>)

CommitLeaf(index, field) ==
    CASE index = "0" /\ field = "id"    -> "commits.0.id"
      [] index = "0" /\ field = "title" -> "commits.0.title"
      [] index = "1" /\ field = "id"    -> "commits.1.id"
      [] OTHER                          -> "commits.1.title"

\* AbstractGitlabEvent.parse_common_push_data: "declined" stands for the
\* PackitParserException the two callers catch.
parse_common_push_data(e) ==
    IF ~Truthy(e["ref"]) THEN [kind |-> "declined"]
    ELSE IF is_push_create_event(e) = "raise" THEN [kind |-> "raise", exc |-> "AttributeError"]
    ELSE IF is_push_create_event(e) = "false" THEN [kind |-> "declined"]
    ELSE IF HeadCommit(e).kind = "raise" THEN HeadCommit(e)
    ELSE IF ~Truthy(e["project.web_url"]) THEN [kind |-> "declined"]
    ELSE [kind |-> "data",
          actor |-> e["user_username"],
          project_url |-> e["project.web_url"],
          parsed_url |-> parse_git_repo(e["project.web_url"]),
          ref |-> RefName(e["ref"]),
          head_commit |-> HeadCommit(e).index]

PushGitlabEvent_parse(e) ==
    IF Get(e, "object_kind") # "push" THEN NoEvent
    ELSE LET d == parse_common_push_data(e) IN
        IF d.kind = "declined" THEN NoEvent
        ELSE IF d.kind = "raise" THEN Raised(d.exc)
        ELSE Produced([cls |-> "PushGitlabEvent",
                       repo_namespace |-> d.parsed_url.namespace,
                       repo_name |-> d.parsed_url.repo,
                       git_ref |-> d.ref,
                       identifier |-> d.ref,
                       project_url |-> d.project_url,
                       commit_sha |-> Get(e, CommitLeaf(d.head_commit, "id"))])

TagPushGitlabEvent_parse(e) ==
    IF Get(e, "object_kind") # "tag_push" THEN NoEvent
    ELSE LET d == parse_common_push_data(e) IN
        IF d.kind = "declined" THEN NoEvent
        ELSE IF d.kind = "raise" THEN Raised(d.exc)
        ELSE Produced([cls |-> "TagPushGitlabEvent",
                       repo_namespace |-> d.parsed_url.namespace,
                       repo_name |-> d.parsed_url.repo,
                       actor |-> d.actor,
                       git_ref |-> d.ref,
                       project_url |-> d.project_url,
                       commit_sha |-> Get(e, CommitLeaf(d.head_commit, "id")),
                       title |-> Get(e, CommitLeaf(d.head_commit, "title"))])

\* A variant that takes the state for the action whatever the payload's action.
MergeRequestGitlabEvent_parse_state_only(e) ==
    IF Get(e, "object_kind") # "merge_request" THEN NoEvent
    ELSE IF Missing(e, "object_attributes.state") THEN Raised("KeyError")
    ELSE IF e["object_attributes.state"] \notin {"opened", "closed"} THEN NoEvent
    ELSE LET state == e["object_attributes.state"]
             action == state
    IN  IF Missing(e, "user.username") THEN Raised("KeyError")
        ELSE IF ~Truthy(e["user.username"]) THEN NoEvent
        ELSE IF Missing(e, "object_attributes.id") THEN Raised("KeyError")
        ELSE IF ~Truthy(e["object_attributes.id"]) THEN NoEvent
        ELSE IF Missing(e, "object_attributes.iid") THEN Raised("KeyError")
        ELSE IF ~Truthy(e["object_attributes.iid"]) THEN NoEvent
        ELSE IF ~Truthy(e["object_attributes.source.web_url"]) THEN NoEvent
        ELSE IF ~Truthy(e["project.web_url"]) THEN NoEvent
        ELSE IF action \notin GitlabEventAction THEN Raised("KeyError")
        ELSE Produced([cls |-> "MergeRequestGitlabEvent",
                       action |-> action,
                       actor |-> e["user.username"],
                       object_id |-> e["object_attributes.id"],
                       pr_id |-> e["object_attributes.iid"],
                       identifier |-> str(e["object_attributes.iid"]),
                       source_repo_namespace |->
                           parse_git_repo(e["object_attributes.source.web_url"]).namespace,
                       source_repo_name |->
                           parse_git_repo(e["object_attributes.source.web_url"]).repo,
                       source_repo_branch |-> Get(e, "object_attributes.source_branch"),
                       source_project_url |-> e["object_attributes.source.web_url"],
                       target_repo_namespace |-> parse_git_repo(e["project.web_url"]).namespace,
                       target_repo_name |-> parse_git_repo(e["project.web_url"]).repo,
                       target_repo_branch |-> Get(e, "object_attributes.target_branch"),
                       project_url |-> e["project.web_url"],
                       commit_sha |-> Get(e, "object_attributes.last_commit.id"),
                       oldrev |-> Get(e, "object_attributes.oldrev"),
                       title |-> Get(e, "object_attributes.title"),
                       url |-> Get(e, "object_attributes.url")])

MergeRequestGitlabEvent_parse(e) ==
    IF Get(e, "object_kind") # "merge_request" THEN NoEvent
    ELSE IF Missing(e, "object_attributes.state") THEN Raised("KeyError")
    ELSE IF e["object_attributes.state"] \notin {"opened", "closed"} THEN NoEvent
    ELSE LET state == e["object_attributes.state"]
             action == IF Get(e, "object_attributes.action") \notin {"reopen", "update"}
                       THEN state ELSE e["object_attributes.action"]
    IN  IF Missing(e, "user.username") THEN Raised("KeyError")
        ELSE IF ~Truthy(e["user.username"]) THEN NoEvent
        ELSE IF Missing(e, "object_attributes.id") THEN Raised("KeyError")
        ELSE IF ~Truthy(e["object_attributes.id"]) THEN NoEvent
        ELSE IF Missing(e, "object_attributes.iid") THEN Raised("KeyError")
        ELSE IF ~Truthy(e["object_attributes.iid"]) THEN NoEvent
        ELSE IF ~Truthy(e["object_attributes.source.web_url"]) THEN NoEvent
        ELSE IF ~Truthy(e["project.web_url"]) THEN NoEvent
        ELSE IF action \notin GitlabEventAction THEN Raised("KeyError")
        ELSE Produced([cls |-> "MergeRequestGitlabEvent",
                       action |-> action,
                       actor |-> e["user.username"],
                       object_id |-> e["object_attributes.id"],
                       pr_id |-> e["object_attributes.iid"],
                       identifier |-> str(e["object_attributes.iid"]),
                       source_repo_namespace |->
                           parse_git_repo(e["object_attributes.source.web_url"]).namespace,
                       source_repo_name |->
                           parse_git_repo(e["object_attributes.source.web_url"]).repo,
                       source_repo_branch |-> Get(e, "object_attributes.source_branch"),
                       source_project_url |-> e["object_attributes.source.web_url"],
                       target_repo_namespace |-> parse_git_repo(e["project.web_url"]).namespace,
                       target_repo_name |-> parse_git_repo(e["project.web_url"]).repo,
                       target_repo_branch |-> Get(e, "object_attributes.target_branch"),
                       project_url |-> e["project.web_url"],
                       commit_sha |-> Get(e, "object_attributes.last_commit.id"),
                       oldrev |-> Get(e, "object_attributes.oldrev"),
                       title |-> Get(e, "object_attributes.title"),
                       url |-> Get(e, "object_attributes.url")])

\* The extractor without the filter on the service's own comments.
MergeRequestCommentGitlabEvent_parse_answers_itself(e) ==
    IF Get(e, "object_kind") # "note" THEN NoEvent
    ELSE IF ~HasNode(e, "merge_request") THEN NoEvent
    ELSE IF Get(e, "merge_request.state") # "opened" THEN NoEvent
    ELSE LET state == e["merge_request.state"]
             action == IF Get(e, "merge_request.action") \notin {"reopen", "update"}
                       THEN state ELSE e["merge_request.action"]
    IN  \* a missing iid or id is logged, and parsing goes on
        IF ~Truthy(e["merge_request.source.web_url"]) THEN NoEvent
        ELSE IF ~Truthy(e["project.web_url"]) THEN NoEvent
        ELSE IF ~Truthy(e["user.username"]) THEN NoEvent
        ELSE IF ~Truthy(e["merge_request.last_commit.id"]) THEN NoEvent
        ELSE IF action \notin GitlabEventAction THEN Raised("KeyError")
        ELSE Produced([cls |-> "MergeRequestCommentGitlabEvent",
                       action |-> action,
                       object_id |-> Get(e, "merge_request.id"),
                       pr_id |-> Get(e, "merge_request.iid"),
                       identifier |-> str(Get(e, "merge_request.iid")),
                       source_repo_namespace |->
                           parse_git_repo(e["merge_request.source.web_url"]).namespace,
                       source_repo_name |->
                           parse_git_repo(e["merge_request.source.web_url"]).repo,
                       target_repo_namespace |-> parse_git_repo(e["project.web_url"]).namespace,
                       target_repo_name |-> parse_git_repo(e["project.web_url"]).repo,
                       project_url |-> e["project.web_url"],
                       actor |-> e["user.username"],
                       comment |-> Get(e, "object_attributes.note"),
                       comment_id |-> Get(e, "object_attributes.id"),
                       commit_sha |-> e["merge_request.last_commit.id"]])

MergeRequestCommentGitlabEvent_parse(e) ==
    IF Get(e, "object_kind") # "note" THEN NoEvent
    ELSE IF ~HasNode(e, "merge_request") THEN NoEvent
    ELSE IF Get(e, "merge_request.state") # "opened" THEN NoEvent
    ELSE LET state == e["merge_request.state"]
             action == IF Get(e, "merge_request.action") \notin {"reopen", "update"}
                       THEN state ELSE e["merge_request.action"]
    IN  \* a missing iid or id is logged, and parsing goes on
        IF ~Truthy(e["merge_request.source.web_url"]) THEN NoEvent
        ELSE IF ~Truthy(e["project.web_url"]) THEN NoEvent
        ELSE IF ~Truthy(e["user.username"]) THEN NoEvent
        ELSE IF e["user.username"] \in {"packit-as-a-service", "packit-as-a-service-stg"}
        THEN NoEvent
        ELSE IF ~Truthy(e["merge_request.last_commit.id"]) THEN NoEvent
        ELSE IF action \notin GitlabEventAction THEN Raised("KeyError")
        ELSE Produced([cls |-> "MergeRequestCommentGitlabEvent",
                       action |-> action,
                       object_id |-> Get(e, "merge_request.id"),
                       pr_id |-> Get(e, "merge_request.iid"),
                       identifier |-> str(Get(e, "merge_request.iid")),
                       source_repo_namespace |->
                           parse_git_repo(e["merge_request.source.web_url"]).namespace,
                       source_repo_name |->
                           parse_git_repo(e["merge_request.source.web_url"]).repo,
                       target_repo_namespace |-> parse_git_repo(e["project.web_url"]).namespace,
                       target_repo_name |-> parse_git_repo(e["project.web_url"]).repo,
                       project_url |-> e["project.web_url"],
                       actor |-> e["user.username"],
                       comment |-> Get(e, "object_attributes.note"),
                       comment_id |-> Get(e, "object_attributes.id"),
                       commit_sha |-> e["merge_request.last_commit.id"]])

IssueCommentGitlabEvent_parse(e) ==
    IF Get(e, "object_kind") # "note" THEN NoEvent
    ELSE IF ~HasNode(e, "issue") THEN NoEvent
    ELSE IF ~Truthy(e["issue.iid"]) THEN NoEvent
    ELSE IF ~(Truthy(e["object_attributes.note"]) /\ Truthy(e["object_attributes.id"]))
    THEN NoEvent
    ELSE IF ~Truthy(e["issue.state"]) THEN NoEvent
    ELSE IF e["issue.state"] # "opened" THEN NoEvent
    ELSE LET state == e["issue.state"]
             action == IF Get(e, "object_attributes.action") \notin {"reopen", "update"}
                       THEN state ELSE e["object_attributes.action"]
    IN  IF ~Truthy(e["project.web_url"]) THEN NoEvent
        ELSE IF ~Truthy(e["user.username"]) THEN NoEvent
        ELSE IF action \notin GitlabEventAction THEN Raised("KeyError")
        ELSE Produced([cls |-> "IssueCommentGitlabEvent",
                       action |-> action,
                       issue_id |-> e["issue.iid"],
                       repo_namespace |-> parse_git_repo(e["project.web_url"]).namespace,
                       repo_name |-> parse_git_repo(e["project.web_url"]).repo,
                       project_url |-> e["project.web_url"],
                       actor |-> e["user.username"],
                       comment |-> e["object_attributes.note"],
                       comment_id |-> e["object_attributes.id"]])

PipelineGitlabEvent_parse(e) ==
    IF Get(e, "object_kind") # "pipeline" THEN NoEvent
    ELSE Produced([cls |-> "PipelineGitlabEvent",
                   project_url |-> Get(e, "project.web_url"),
                   project_name |-> Get(e, "project.name"),
                   pipeline_id |-> Get(e, "object_attributes.id"),
                   git_ref |-> Get(e, "object_attributes.ref"),
                   status |-> Get(e, "object_attributes.status"),
                   detailed_status |-> Get(e, "object_attributes.detailed_status"),
                   commit_sha |-> Get(e, "object_attributes.sha"),
                   source |-> Get(e, "object_attributes.source"),
                   merge_request_url |-> Get(e, "merge_request.url")])

ReleaseGitlabEvent_parse(e) ==
    IF Get(e, "object_kind") # "release" THEN NoEvent
    ELSE IF Get(e, "action") # "create" THEN NoEvent
    ELSE IF ~Truthy(e["project.web_url"]) THEN NoEvent
    ELSE Produced([cls |-> "ReleaseGitlabEvent",
                   repo_namespace |-> parse_git_repo(e["project.web_url"]).namespace,
                   repo_name |-> parse_git_repo(e["project.web_url"]).repo,
                   project_url |-> e["project.web_url"],
                   tag_name |-> Get(e, "tag"),
                   git_ref |-> Get(e, "tag"),
                   commit_sha |-> Get(e, "commit.id")])

----------------------------------------------------------------------------
(* Pagure and release-monitoring extractors: pagure.py, new_hotness.py      *)

\* f"{dg_base_url}{namespace}/{name}"
DistGitUrl(namespace, name) ==
    IF namespace = "rpms" /\ name = "hello" THEN URL_PAGURE
    ELSE "https://src.fedoraproject.org/<other>"

PushPagureEvent_parse(e) ==
    IF Get(e, "topic") # "org.fedoraproject.prod.git.receive" THEN NoEvent
    ELSE IF ~(Truthy(e["commit.namespace"]) /\ Truthy(e["commit.repo"])) THEN NoEvent
    ELSE IF ~(Truthy(e["commit.branch"]) /\ Truthy(e["commit.rev"])) THEN NoEvent
    ELSE Produced([cls |-> "PushPagureEvent",
                   repo_namespace |-> e["commit.namespace"],
                   repo_name |-> e["commit.repo"],
                   git_ref |-> e["commit.branch"],
                   identifier |-> e["commit.branch"],
                   project_url |-> DistGitUrl(e["commit.namespace"], e["commit.repo"]),
                   commit_sha |-> e["commit.rev"],
                   committer |-> Get(e, "commit.username")])

PullRequestCommentPagureEvent_parse(e) ==
    IF ~ContainsInnerParts(Get(e, "topic"), <<"pagure", "pull-request", "comment">>)
    THEN NoEvent
    ELSE IF Missing(e, "pullrequest.id") \/ Missing(e, "agent") THEN Raised("KeyError")
    ELSE IF e["agent"] \in {"packit", "packit-stg"} THEN NoEvent
    ELSE IF \E p \in {"pullrequest.project.namespace", "pullrequest.project.name",
                      "pullrequest.repo_from"} : Missing(e, p)
    THEN Raised("KeyError")
    ELSE IF Truthy(e["pullrequest.repo_from"])
            /\ (Missing(e, "pullrequest.repo_from.user.name")
                \/ Missing(e, "pullrequest.repo_from.name"))
    THEN Raised("KeyError")
    ELSE IF Missing(e, "pullrequest.project.full_url") \/ Missing(e, "pullrequest.commit_stop")
    THEN Raised("KeyError")
    \* "added" in event["topic"]
    ELSE IF ~ContainsParts(e["topic"], <<"added">>) THEN Raised("ValueError")
    ELSE IF Missing(e, "pullrequest.comments.last.comment")
            \/ Missing(e, "pullrequest.comments.last.id")
    THEN Raised("KeyError")
    ELSE LET repo_from == Truthy(e["pullrequest.repo_from"]) IN
        Produced([cls |-> "PullRequestCommentPagureEvent",
                  action |-> "created",
                  pr_id |-> e["pullrequest.id"],
                  identifier |-> str(e["pullrequest.id"]),
                  git_ref |-> Null,
                  base_repo_namespace |-> e["pullrequest.project.namespace"],
                  base_repo_name |-> e["pullrequest.project.name"],
                  base_repo_owner |-> IF repo_from THEN e["pullrequest.repo_from.user.name"]
                                      ELSE e["agent"],
                  base_ref |-> Null,
                  target_repo |-> IF repo_from THEN e["pullrequest.repo_from.name"]
                                  ELSE e["pullrequest.project.name"],
                  project_url |-> e["pullrequest.project.full_url"],
                  commit_sha |-> e["pullrequest.commit_stop"],
                  user_login |-> e["agent"],
                  comment |-> e["pullrequest.comments.last.comment"],
                  comment_id |-> e["pullrequest.comments.last.id"]])

PullRequestFlagPagureEvent_parse(e) ==
    IF ~ContainsInnerParts(Get(e, "topic"), <<"pagure", "pull-request", "flag">>)
    THEN NoEvent
    ELSE IF ~HasNode(e, "flag") THEN NoEvent
    ELSE Produced([cls |-> "PullRequestFlagPagureEvent",
                   username |-> Get(e, "flag.username"),
                   comment |-> Get(e, "flag.comment"),
                   status |-> Get(e, "flag.status"),
                   date_updated |-> Get(e, "flag.date_updated"),
                   url |-> Get(e, "flag.url"),
                   commit_sha |-> Get(e, "flag.commit_hash"),
                   pr_id |-> Get(e, "pullrequest.id"),
                   pr_url |-> Get(e, "pullrequest.full_url"),
                   pr_source_branch |-> Get(e, "pullrequest.branch_from"),
                   project_url |-> Get(e, "pullrequest.project.full_url"),
                   project_name |-> Get(e, "pullrequest.project.name"),
                   project_namespace |-> Get(e, "pullrequest.project.namespace")])

NewHotnessUpdateEvent_parse(e) ==
    IF ~ContainsParts(Get(e, "topic"), <<"hotness", "update", "bug", "file">>)
    THEN NoEvent
    ELSE Produced([cls |-> "NewHotnessUpdateEvent",
                   package_name |-> Get(e, "package"),
                   version |-> Get(e, "trigger.msg.project.version"),
                   distgit_project_url |-> DistGitUrl("rpms", Get(e, "package"))])

----------------------------------------------------------------------------
(* Copr and Koji result extractors: copr.py and koji.py are outside the     *)
(* sources at hand; each claims the topics Parser.MAPPING routes to it and  *)
(* needs the build or task identifier its lookup is keyed by.               *)

AbstractCoprBuildEvent_parse(e) ==
    IF ~ContainsParts(Get(e, "topic"), <<"copr", "build">>) THEN NoEvent
    ELSE IF ~Truthy(e["build"]) THEN NoEvent
    ELSE Produced([cls |-> "CoprBuildEndEvent", build_id |-> e["build"]])

KojiTaskEvent_parse(e) ==
    IF ~ContainsParts(Get(e, "topic"), <<"buildsys", "task", "state", "change">>)
    THEN NoEvent
    ELSE IF ~Truthy(e["id"]) THEN NoEvent
    ELSE Produced([cls |-> "KojiTaskEvent", task_id |-> e["id"]])

KojiBuildEvent_parse(e) ==
    IF ~ContainsParts(Get(e, "topic"), <<"buildsys", "build", "state", "change">>)
    THEN NoEvent
    ELSE IF ~Truthy(e["build_id"]) THEN NoEvent
    ELSE Produced([cls |-> "KojiBuildEvent", build_id |-> e["build_id"]])

----------------------------------------------------------------------------
(* The dispatcher: worker/parser.py                                         *)

\* The extractors Parser.parse_event tries, in its order.
ParserOrder ==
    <<"PullRequestGithubEvent", "PullRequestCommentGithubEvent", "IssueCommentEvent",
      "ReleaseEvent", "PushGitHubEvent", "CheckRerunEvent", "InstallationEvent",
      "TestingFarmResultsEvent", "AbstractCoprBuildEvent", "MergeRequestGitlabEvent",
      "KojiTaskEvent", "KojiBuildEvent", "MergeRequestCommentGitlabEvent",
      "IssueCommentGitlabEvent", "PushGitlabEvent", "PipelineGitlabEvent",
      "PushPagureEvent", "PullRequestFlagPagureEvent", "PullRequestCommentPagureEvent",
      "NewHotnessUpdateEvent", "ReleaseGitlabEvent", "TagPushGitlabEvent">>

Extractors == {ParserOrder[i] : i \in 1..Len(ParserOrder)}

\* parser(event) for the extractor of that name
Invoke(name, e) ==
    CASE name = "PullRequestGithubEvent"         -> PullRequestGithubEvent_parse(e)
      [] name = "PullRequestCommentGithubEvent"  -> PullRequestCommentGithubEvent_parse(e)
      [] name = "IssueCommentEvent"              -> IssueCommentEvent_parse(e)
      [] name = "ReleaseEvent"                   -> ReleaseEvent_parse(e)
      [] name = "PushGitHubEvent"                -> PushGitHubEvent_parse(e)
      [] name = "CheckRerunEvent"                -> CheckRerunEvent_parse(e)
      [] name = "InstallationEvent"              -> InstallationEvent_parse(e)
      [] name = "TestingFarmResultsEvent"        -> TestingFarmResultsEvent_parse(e)
      [] name = "AbstractCoprBuildEvent"         -> AbstractCoprBuildEvent_parse(e)
      [] name = "MergeRequestGitlabEvent"        -> MergeRequestGitlabEvent_parse(e)
      [] name = "KojiTaskEvent"                  -> KojiTaskEvent_parse(e)
      [] name = "KojiBuildEvent"                 -> KojiBuildEvent_parse(e)
      [] name = "MergeRequestCommentGitlabEvent" -> MergeRequestCommentGitlabEvent_parse(e)
      [] name = "IssueCommentGitlabEvent"        -> IssueCommentGitlabEvent_parse(e)
      [] name = "PushGitlabEvent"                -> PushGitlabEvent_parse(e)
      [] name = "PipelineGitlabEvent"            -> PipelineGitlabEvent_parse(e)
      [] name = "PushPagureEvent"                -> PushPagureEvent_parse(e)
      [] name = "PullRequestFlagPagureEvent"     -> PullRequestFlagPagureEvent_parse(e)
      [] name = "PullRequestCommentPagureEvent"  -> PullRequestCommentPagureEvent_parse(e)
      [] name = "NewHotnessUpdateEvent"          -> NewHotnessUpdateEvent_parse(e)
      [] name = "ReleaseGitlabEvent"             -> ReleaseGitlabEvent_parse(e)
      [] OTHER                                   -> TagPushGitlabEvent_parse(e)

\* A variant that takes no payload for falsy.
Falsy_never(e) == e # e

\* `not event`: the payload is None or an empty dict.
Falsy(e) == \A p \in DOMAIN e : e[p] = Absent

\* A variant of Scan that runs the extractors left after the one that
\* produced the event.
RECURSIVE Scan_runs_the_rest(_, _, _)
Scan_runs_the_rest(order, e, i) ==
    IF i > Len(order) THEN [out |-> NoEvent, invoked |-> Len(order)]
    ELSE LET response == Invoke(order[i], e) IN
        IF response.kind = "event" THEN [out |-> response, invoked |-> Len(order)]
        ELSE IF response.kind = "raise"
        THEN [out |-> IF response.exc = "StopIteration" THEN NoEvent ELSE response,
              invoked |-> i]
        ELSE Scan_runs_the_rest(order, e, i + 1)

\* `for response in map(lambda parser: parser(event), (...))`: map is lazy,
\* so an extractor runs only when the loop asks for its response.  An
\* exception leaves the loop; a StopIteration raised inside the extractor is
\* taken by the for statement as the end of the iteration.
RECURSIVE Scan(_, _, _)
Scan(order, e, i) ==
    IF i > Len(order) THEN [out |-> NoEvent, invoked |-> Len(order)]
    ELSE LET response == Invoke(order[i], e) IN
        IF response.kind = "event" THEN [out |-> response, invoked |-> i]
        ELSE IF response.kind = "raise"
        THEN [out |-> IF response.exc = "StopIteration" THEN NoEvent ELSE response,
              invoked |-> i]
        ELSE Scan(order, e, i + 1)

\* Parser.parse_event: the outcome and the extractors invoked
parse_event(e) ==
    IF Falsy(e) THEN [out |-> NoEvent, calls |-> << >>]
    ELSE LET r == Scan(ParserOrder, e, 1)
         IN  [out |-> r.out, calls |-> SubSeq(ParserOrder, 1, r.invoked)]

\* Parser.parse_github_comment_event
parse_github_comment_event(e) ==
    IF HasNode(e, "issue.pull_request")
    THEN [out |-> PullRequestCommentGithubEvent_parse(e),
          calls |-> <<"PullRequestCommentGithubEvent">>]
    ELSE [out |-> IssueCommentEvent_parse(e), calls |-> <<"IssueCommentEvent">>]

\* A variant that looks at the issue instead of the merge request.
parse_gitlab_comment_event_by_issue(e) ==
    IF HasNode(e, "issue")
    THEN [out |-> IssueCommentGitlabEvent_parse(e),
          calls |-> <<"IssueCommentGitlabEvent">>]
    ELSE [out |-> MergeRequestCommentGitlabEvent_parse(e),
          calls |-> <<"MergeRequestCommentGitlabEvent">>]

\* Parser.parse_gitlab_comment_event
parse_gitlab_comment_event(e) ==
    IF HasNode(e, "merge_request")
    THEN [out |-> MergeRequestCommentGitlabEvent_parse(e),
          calls |-> <<"MergeRequestCommentGitlabEvent">>]
    ELSE [out |-> IssueCommentGitlabEvent_parse(e),
          calls |-> <<"IssueCommentGitlabEvent">>]

----------------------------------------------------------------------------
(* The payloads the operations are run on: a well-formed payload of each    *)
(* wire shape, two shapes laid over each other, and a shape with some of    *)
(* its leaves dropped or changed.                                           *)

MaxMutations == 2

GithubRepository ==
    "repository.html_url" :> URL_GITHUB @@ "repository.name" :> "hello-world"
    @@ "repository.owner.login" :> "packit" @@ "repository.full_name" :> "packit/hello-world"

\* A push without the list of its commits ("commits": []), as GitLab sends
\* for a branch that was created with no new commit.
GitlabPushWithoutCommits ==
    "ref" :> "refs/heads/main" @@ "before" :> "sha-old" @@ "after" :> "sha-new"
    @@ "checkout_sha" :> "sha-new" @@ "user_username" :> "bob"
    @@ "project.web_url" :> URL_GITLAB

GitlabPush ==
    GitlabPushWithoutCommits
    @@ "commits.0.id" :> "sha-new" @@ "commits.0.title" :> "newest"
    @@ "commits.1.id" :> "sha-old" @@ "commits.1.title" :> "older"

PagurePullRequest ==
    "pullrequest.id" :> "int:12" @@ "pullrequest.project.namespace" :> "rpms"
    @@ "pullrequest.project.name" :> "hello"
    @@ "pullrequest.project.full_url" :> URL_PAGURE

GitlabMergeRequestNote ==
    "object_kind" :> "note" @@ "user.username" :> "bob"
    @@ "object_attributes.note" :> "/packit build"
    @@ "object_attributes.id" :> "int:55"
    @@ "merge_request.state" :> "opened" @@ "merge_request.action" :> Absent
    @@ "merge_request.id" :> "int:12" @@ "merge_request.iid" :> "int:7"
    @@ "merge_request.source.web_url" :> URL_GITLAB_FORK
    @@ "merge_request.last_commit.id" :> "sha-new"
    @@ "project.web_url" :> URL_GITLAB

GitlabIssueNote ==
    "object_kind" :> "note" @@ "user.username" :> "bob"
    @@ "object_attributes.note" :> "/packit propose-downstream"
    @@ "object_attributes.id" :> "int:55" @@ "object_attributes.action" :> Absent
    @@ "issue.iid" :> "int:7" @@ "issue.state" :> "opened"
    @@ "project.web_url" :> URL_GITLAB

Template(shape) ==
    CASE shape = "github.pull_request" ->
            "action" :> "opened" @@ "number" :> "int:7"
            @@ "pull_request.head.repo.owner.login" :> "forker"
            @@ "pull_request.head.repo.name" :> "hello-world"
            @@ "pull_request.head.sha" :> "sha-new"
            @@ "pull_request.user.login" :> "alice"
            @@ "pull_request.base.repo.owner.login" :> "packit"
            @@ "pull_request.base.repo.name" :> "hello-world"
            @@ GithubRepository
      [] shape = "github.pr_comment" ->
            "action" :> "created" @@ "issue.pull_request.url" :> "https://api/pulls/7"
            @@ "issue.number" :> "int:7" @@ "issue.user.login" :> "forker"
            @@ "comment.body" :> "/packit build" @@ "comment.id" :> "int:55"
            @@ "comment.user.login" :> "alice" @@ GithubRepository
      [] shape = "github.issue_comment" ->
            "action" :> "created" @@ "issue.number" :> "int:7"
            @@ "issue.user.login" :> "alice"
            @@ "comment.body" :> "/packit propose-downstream" @@ "comment.id" :> "int:55"
            @@ "comment.user.login" :> "alice" @@ GithubRepository
      [] shape = "github.release" ->
            "action" :> "published" @@ "release.tag_name" :> "v1.0"
            @@ "release.id" :> "int:55" @@ GithubRepository
      [] shape = "github.push" ->
            "ref" :> "refs/heads/main" @@ "before" :> "sha-old" @@ "after" :> "sha-new"
            @@ "head" :> Absent @@ "head_commit.id" :> "sha-new"
            @@ "pusher.name" :> "alice" @@ "deleted" :> Null @@ GithubRepository
      [] shape = "github.check_run" ->
            "action" :> "rerequested" @@ "check_run.name" :> "rpm-build:fedora-34-x86_64"
            @@ "check_run.app.slug" :> "packit-as-a-service"
            @@ "check_run.external_id" :> "1" @@ "check_run.head_sha" :> "sha-new"
            @@ "sender.login" :> "alice" @@ GithubRepository
      [] shape = "github.installation" ->
            "action" :> "created" @@ "installation.id" :> "int:55"
            @@ "installation.account.login" :> "packit"
            @@ "installation.account.id" :> "int:7"
            @@ "installation.account.url" :> "https://api/users/packit"
            @@ "installation.account.type" :> "Organization"
            @@ "installation.created_at" :> "int:12"
            @@ "repositories.0.full_name" :> "packit/hello-world"
            @@ "sender.id" :> "int:7" @@ "sender.login" :> "alice"
      [] shape = "testing_farm.results" ->
            "source" :> "testing-farm" @@ "request_id" :> "req-1"
      [] shape = "copr.build" ->
            "topic" :> T_COPR_END @@ "build" :> "int:55"
      [] shape = "koji.task" ->
            "topic" :> T_KOJI_TASK @@ "id" :> "int:55"
      [] shape = "koji.build" ->
            "topic" :> T_KOJI_BUILD @@ "build_id" :> "int:55"
      [] shape = "gitlab.merge_request" ->
            "object_kind" :> "merge_request" @@ "user.username" :> "bob"
            @@ "object_attributes.state" :> "opened"
            @@ "object_attributes.action" :> "open"
            @@ "object_attributes.id" :> "int:55" @@ "object_attributes.iid" :> "int:7"
            @@ "object_attributes.source.web_url" :> URL_GITLAB_FORK
            @@ "object_attributes.source_branch" :> "feature"
            @@ "object_attributes.target_branch" :> "main"
            @@ "object_attributes.last_commit.id" :> "sha-new"
            @@ "object_attributes.oldrev" :> Absent
            @@ "object_attributes.title" :> "Update" @@ "object_attributes.url" :> "mr-url"
            @@ "project.web_url" :> URL_GITLAB
      [] shape = "gitlab.mr_note" -> GitlabMergeRequestNote
      [] shape = "gitlab.issue_note" -> GitlabIssueNote
      [] shape = "gitlab.push" -> "object_kind" :> "push" @@ GitlabPush
      [] shape = "gitlab.note_on_both" ->
            \* a note that carries a merge request and an issue
            GitlabMergeRequestNote @@ GitlabIssueNote
      [] shape = "gitlab.branch_push" ->
            "object_kind" :> "push" @@ GitlabPushWithoutCommits
      [] shape = "gitlab.tag_push" ->
            "object_kind" :> "tag_push" @@ "ref" :> "refs/tags/v1.0" @@ GitlabPush
      [] shape = "gitlab.pipeline" ->
            "object_kind" :> "pipeline" @@ "project.web_url" :> URL_GITLAB
            @@ "project.name" :> "hello-there" @@ "object_attributes.id" :> "int:55"
            @@ "object_attributes.ref" :> "feature" @@ "object_attributes.sha" :> "sha-new"
            @@ "object_attributes.status" :> "success"
            @@ "object_attributes.detailed_status" :> "passed"
            @@ "object_attributes.source" :> "merge_request_event"
            @@ "merge_request.url" :> "mr-url"
      [] shape = "gitlab.release" ->
            "object_kind" :> "release" @@ "action" :> "create" @@ "tag" :> "v1.0"
            @@ "commit.id" :> "sha-new" @@ "project.web_url" :> URL_GITLAB
      [] shape = "pagure.push" ->
            "topic" :> T_PUSH_PROD @@ "commit.namespace" :> "rpms"
            @@ "commit.repo" :> "hello" @@ "commit.branch" :> "main"
            @@ "commit.rev" :> "sha-new" @@ "commit.username" :> "carol"
      [] shape = "pagure.pr_flag" ->
            "topic" :> T_PR_FLAG_ADDED @@ "flag.username" :> "Zuul"
            @@ "flag.comment" :> "Jobs result is success" @@ "flag.status" :> "success"
            @@ "flag.date_updated" :> "int:12" @@ "flag.url" :> "flag-url"
            @@ "flag.commit_hash" :> "sha-new" @@ "pullrequest.full_url" :> "pr-url"
            @@ "pullrequest.branch_from" :> "feature" @@ PagurePullRequest
      [] shape = "pagure.pr_comment" ->
            "topic" :> T_PR_COMMENT_ADDED @@ "agent" :> "carol"
            @@ "pullrequest.repo_from" :> "dict"
            @@ "pullrequest.repo_from.user.name" :> "carol"
            @@ "pullrequest.repo_from.name" :> "hello"
            @@ "pullrequest.commit_stop" :> "sha-new"
            @@ "pullrequest.comments.last.comment" :> "/packit pull-from-upstream"
            @@ "pullrequest.comments.last.id" :> "int:55" @@ PagurePullRequest
      [] OTHER ->
            \* "hotness": the release-monitoring feed
            "topic" :> T_HOTNESS @@ "package" :> "hello"
            @@ "trigger.msg.project.version" :> "1.0"

Shapes ==
    {"github.pull_request", "github.pr_comment", "github.issue_comment",
     "github.release", "github.push", "github.check_run", "github.installation",
     "testing_farm.results", "copr.build", "koji.task", "koji.build",
     "gitlab.merge_request", "gitlab.mr_note", "gitlab.issue_note", "gitlab.note_on_both",
     "gitlab.push", "gitlab.branch_push", "gitlab.tag_push", "gitlab.pipeline", "gitlab.release", "pagure.push",
     "pagure.pr_flag", "pagure.pr_comment", "hotness"}

Paths == UNION {DOMAIN Template(shape) : shape \in Shapes}

\* The values a leaf is changed to, besides being dropped.
Values(p) ==
    CASE p = "action" ->
            {"opened", "synchronize", "closed", "created", "edited", "deleted",
             "published", "rerequested", "create"}
      [] p = "comment.user.login" ->
            {"packit-as-a-service[bot]", "packit-as-a-service-stg[bot]"}
      [] p = "user.username" -> {Null, "packit-as-a-service", "packit-as-a-service-stg"}
      [] p = "agent" -> {"packit", "packit-stg"}
      [] p = "object_attributes.state" -> {"opened", "closed", "merged"}
      [] p = "object_attributes.action" -> {"open", "reopen", "update", "close"}
      [] p = "merge_request.state" -> {"opened", "closed"}
      [] p = "merge_request.action" -> {"update"}
      [] p = "issue.state" -> {"opened", "closed"}
      [] p = "topic" ->
            {T_PUSH_PROD, T_PUSH_STG, T_PR_COMMENT_ADDED, T_PR_COMMENT_EDITED,
             T_PR_FLAG_ADDED, T_PR_FLAG_UPDATED}
      [] p = "check_run.name" ->
            {"rpm-build:main:fedora-34-x86_64", "rpm-build:fedora-34-x86_64:myid",
             "rpm-build:main:fedora-34-x86_64:myid", "propose-downstream:f35",
             "testing-farm:fedora-34-x86_64", "rpm-build", "rpm-build:",
             "copr-build:fedora-34-x86_64", "koji-build:f35",
             "vm-image-build:fedora-34-x86_64"}
      [] p = "check_run.app.slug" -> {"packit-as-a-service-stg", "other-app"}
      [] p = "check_run.external_id" -> {"2", "3", "4", "9", "abc"}
      [] p = "deleted" -> {"true"}
      [] p = "after" -> {ZERO_SHA}
      [] p = "head" -> {"sha-new"}
      [] p = "ref" -> {"refs/heads/feature/x", "refs/tags/v1.0"}
      [] p = "checkout_sha" -> {"sha-old", "sha-unknown"}
      [] p = "source" -> {"other"}
      [] p = "request_id" -> {"req-404"}
      [] p = "pullrequest.repo_from" -> {Null}
      [] OTHER -> {}

\* The payload with the leaves of a template, every other leaf missing.
Payload(t) == [p \in Paths |-> IF p \in DOMAIN t THEN t[p] ELSE Absent]

EmptyPayload == [p \in Paths |-> Absent]

\* The changes of one leaf: dropping it, or giving it another value.
Changes(leaves) == UNION {{<<p, v>> : v \in Values(p) \cup {Absent}} : p \in leaves}

\* The sets of at most n changes, of different leaves.
RECURSIVE ChangeSets(_, _)
ChangeSets(leaves, n) ==
    IF n = 0 THEN {{}}
    ELSE LET fewer == ChangeSets(leaves, n - 1)
         IN  fewer \cup UNION {{m \cup {c} :
                                    c \in {d \in Changes(leaves) : \A x \in m : x[1] # d[1]}} :
                                  m \in fewer}

\* The payload e with the changes m made.
Mutate(e, m) ==
    [p \in DOMAIN e |->
        IF \E c \in m : c[1] = p THEN (CHOOSE c \in m : c[1] = p)[2] ELSE e[p]]

\* A payload of one shape, with at most MaxMutations of its leaves changed.
MutatedPayload(shape, m) == Mutate(Payload(Template(shape)), m)

\* A payload that carries the leaves of two shapes; the first wins a leaf
\* both have.
MergedPayload(first, second) == Payload(Template(first) @@ Template(second))

\* What the issue_comment webhook and the Note Hook deliver.
GithubCommentShapes == {"github.pr_comment", "github.issue_comment"}
GitlabCommentShapes == {"gitlab.mr_note", "gitlab.issue_note", "gitlab.note_on_both"}

----------------------------------------------------------------------------
(* The state machine                                                        *)

InitialDb ==
    1 :> [type |-> "PullRequestModel", pr_id |-> "int:12", tag_name |-> Null, name |-> Null]
    @@ 2 :> [type |-> "ProjectReleaseModel", pr_id |-> Null, tag_name |-> "v1.0", name |-> Null]
    @@ 3 :> [type |-> "GitBranchModel", pr_id |-> Null, tag_name |-> Null, name |-> "main"]
    @@ 4 :> [type |-> "IssueModel", pr_id |-> Null, tag_name |-> Null, name |-> Null]

\* No worker, no hotness event, no scan: only the parser is at work.
ParserOnly ==
    /\ workers = << >>
    /\ hotness_events = << >>
    /\ release_db = << >>
    /\ osh = << >>

Init ==
    /\ InitCommon
    /\ ParserOnly
    /\ deployment \in Deployments
    /\ db = InitialDb
    /\ tf_known = {"req-1"}
    /\ event = EmptyPayload
    /\ result = NoEvent
    /\ calls = << >>

\* One call of an entry point on a payload.
Call(name, e, r) ==
    /\ pc = "idle"
    /\ pc' = "done"
    /\ entry' = name
    /\ event' = e
    /\ result' = r.out
    /\ calls' = r.calls
    /\ UNCHANGED <<deployment, db, tf_known, check_name, project_object, check_result>>
    /\ UNCHANGED other_vars

\* The entry point of that name run on a payload.
Run(name, e) ==
    CASE name = "parse_event"                -> parse_event(e)
      [] name = "parse_github_comment_event" -> parse_github_comment_event(e)
      [] OTHER                               -> parse_gitlab_comment_event(e)

\* A call on a payload of one of the shapes, some leaves changed, or on such
\* a payload with the leaves of a second shape laid under it.
CallOnShapes(name, shapes) ==
    /\ pc = "idle"
    /\ \/ \E shape \in shapes :
           \E m \in ChangeSets(DOMAIN Template(shape), MaxMutations) :
               Call(name, MutatedPayload(shape, m), Run(name, MutatedPayload(shape, m)))
       \/ \E first \in shapes, second \in Shapes :
           Call(name, MergedPayload(first, second), Run(name, MergedPayload(first, second)))

ParseEvent ==
    \/ CallOnShapes("parse_event", Shapes)
    \/ Call("parse_event", EmptyPayload, Run("parse_event", EmptyPayload))

ParseGithubCommentEvent ==
    CallOnShapes("parse_github_comment_event", GithubCommentShapes)

ParseGitlabCommentEvent ==
    CallOnShapes("parse_gitlab_comment_event", GitlabCommentShapes)

Next == ParseEvent \/ ParseGithubCommentEvent \/ ParseGitlabCommentEvent

Spec == Init /\ [][Next]_vars

\* The check-name grammar on its own, over every name of CheckNames.
InitCheckName ==
    /\ InitCommon
    /\ ParserOnly
    /\ deployment = "prod"
    /\ db = InitialDb
    /\ tf_known = {"req-1"}
    /\ event = EmptyPayload
    /\ result = NoEvent
    /\ calls = << >>

NextCheckName == ParseCheckName

SpecCheckName == InitCheckName /\ [][NextCheckName]_vars

----------------------------------------------------------------------------
(* Properties of the check-name grammar (SpecCheckName)                     *)

\* parse_check_name has returned for check_name and project_object.
CheckNameParsed == pc = "done" /\ entry = "parse_check_name"

\* The colon-separated segments of a name, all of them.
Segments(name) == Split(name, Len(name))

ColonFree(s) == \A i \in 1..Len(s) : s[i] # Colon

\* The strings a target or an identifier is drawn from: "", a word, and
\* strings with a colon inside.
Strings == {Join(s) : s \in SeqsUpTo(SegmentWords, 2)}

Triple(job, target, identifier) ==
    Some([job |-> job, target |-> target, identifier |-> identifier])

\* A build/test job on a commit- or release-triggered Project Event.
DiscardsMiddle(job, obj) ==
    /\ job \in build_test_job_names
    /\ job_config_trigger_type(obj) \in {"commit", "release"}

\* C6 as stated: "job:target" decodes to (job, target, None) for every
\* target, and "job:target:identifier" decodes to the original triple, or to
\* the triple without its middle segment for a build/test job on a
\* commit/release Project Event.
C6_RoundTrip_AsStated ==
    CheckNameParsed =>
        /\ \A job \in MAP_CHECK_PREFIX_TO_HANDLER, target \in Strings :
            check_name = Join(<<job, target>>)
                => check_result = Triple(job, target, None)
        /\ \A job \in MAP_CHECK_PREFIX_TO_HANDLER, target \in Strings, identifier \in Strings :
            check_name = Join(<<job, target, identifier>>)
                => check_result =
                    IF DiscardsMiddle(job, project_object)
                    THEN Triple(job, identifier, None)
                    ELSE Triple(job, target, Some(identifier))

\* C6: the check-name round trip holds for a non-empty target without a
\* colon and an identifier without a colon: "job:target" decodes to
\* (job, target, None) on any Project Event; "job:target:identifier" decodes
\* to (job, target, identifier), except for a build/test job on a
\* commit/release Project Event, where the middle segment is discarded and
\* the result is (job, identifier, None), or None when the identifier is "".
C6_RoundTrip ==
    CheckNameParsed =>
        /\ \A job \in MAP_CHECK_PREFIX_TO_HANDLER, target \in Strings :
            /\ NonEmpty(target) /\ ColonFree(target)
            /\ check_name = Join(<<job, target>>)
            => check_result = Triple(job, target, None)
        /\ \A job \in MAP_CHECK_PREFIX_TO_HANDLER, target \in Strings, identifier \in Strings :
            /\ NonEmpty(target) /\ ColonFree(target) /\ ColonFree(identifier)
            /\ check_name = Join(<<job, target, identifier>>)
            => check_result =
                IF DiscardsMiddle(job, project_object)
                THEN IF NonEmpty(identifier) THEN Triple(job, identifier, None) ELSE None
                ELSE Triple(job, target, Some(identifier))

C6_Witness ==
    /\ CheckNameParsed
    /\ check_name = Join(<< <<"rpm-build">>, <<"fedora-34-x86_64">>, <<"myid">> >>)
    /\ project_object = "PullRequestModel"
    /\ check_result = Triple(<<"rpm-build">>, <<"fedora-34-x86_64">>, Some(<<"myid">>))

\* C7 as stated: a name of exactly 2 segments with a known job kind gives
\* (segment1, segment2, None), whatever the trigger kind.
C7_TwoSegments_AsStated ==
    LET seg == Segments(check_name) IN
    CheckNameParsed /\ Len(seg) = 2 /\ seg[1] \in MAP_CHECK_PREFIX_TO_HANDLER
        => check_result = Triple(seg[1], seg[2], None)

\* C7: a name of exactly 2 segments with a known job kind gives
\* (segment1, segment2, None) whatever the trigger kind when segment 2 is
\* not empty, and None when it is empty.
C7_TwoSegments ==
    LET seg == Segments(check_name) IN
    CheckNameParsed /\ Len(seg) = 2 /\ seg[1] \in MAP_CHECK_PREFIX_TO_HANDLER
        => check_result =
            IF NonEmpty(seg[2]) THEN Triple(seg[1], seg[2], None) ELSE None

C7_Witness ==
    /\ CheckNameParsed
    /\ check_name = Join(<< <<"rpm-build">>, <<"fedora-34-x86_64">> >>)
    /\ project_object = "ProjectReleaseModel"
    /\ check_result = Triple(<<"rpm-build">>, <<"fedora-34-x86_64">>, None)

\* C8 as stated: a name of exactly 3 segments of a build/test job on a
\* commit/release Project Event gives (segment1, segment3, None).
C8_ThreeSegmentsDiscard_AsStated ==
    LET seg == Segments(check_name) IN
    CheckNameParsed /\ Len(seg) = 3 /\ DiscardsMiddle(seg[1], project_object)
        => check_result = Triple(seg[1], seg[3], None)

\* C8: a name of exactly 3 segments of a build/test job on a commit/release
\* Project Event gives (segment1, segment3, None) when segment 3 is not
\* empty, and None when it is empty; segment 2 is discarded.
C8_ThreeSegmentsDiscard ==
    LET seg == Segments(check_name) IN
    CheckNameParsed /\ Len(seg) = 3 /\ DiscardsMiddle(seg[1], project_object)
        => check_result =
            IF NonEmpty(seg[3]) THEN Triple(seg[1], seg[3], None) ELSE None

C8_Witness ==
    /\ CheckNameParsed
    /\ check_name = Join(<< <<"rpm-build">>, <<"main">>, <<"fedora-34-x86_64">> >>)
    /\ project_object = "GitBranchModel"
    /\ check_result = Triple(<<"rpm-build">>, <<"fedora-34-x86_64">>, None)

\* C9 as stated: a name of exactly 3 segments whose known job kind is not a
\* build/test job, or whose Project Event is neither commit- nor
\* release-triggered, gives (segment1, segment2, segment3).
C9_ThreeSegmentsKeep_AsStated ==
    LET seg == Segments(check_name) IN
    /\ CheckNameParsed /\ Len(seg) = 3 /\ seg[1] \in MAP_CHECK_PREFIX_TO_HANDLER
    /\ ~DiscardsMiddle(seg[1], project_object)
    => check_result = Triple(seg[1], seg[2], Some(seg[3]))

\* C9: a name of exactly 3 segments whose known job kind is not a build/test
\* job, or whose Project Event is neither commit- nor release-triggered,
\* gives (segment1, segment2, segment3) when segment 2 is not empty, and None
\* when it is empty.
C9_ThreeSegmentsKeep ==
    LET seg == Segments(check_name) IN
    /\ CheckNameParsed /\ Len(seg) = 3 /\ seg[1] \in MAP_CHECK_PREFIX_TO_HANDLER
    /\ ~DiscardsMiddle(seg[1], project_object)
    => check_result =
        IF NonEmpty(seg[2]) THEN Triple(seg[1], seg[2], Some(seg[3])) ELSE None

C9_Witness ==
    /\ CheckNameParsed
    /\ check_name = Join(<< <<"testing-farm">>, <<"fedora-34-x86_64">>, <<"myid">> >>)
    /\ project_object = "PullRequestModel"
    /\ check_result = Triple(<<"testing-farm">>, <<"fedora-34-x86_64">>, Some(<<"myid">>))

\* C10 as stated: a name of 4 segments with a known job kind gives
\* (segment1, segment3, segment4) for every job kind and trigger kind.
C10_FourSegments_AsStated ==
    LET seg == Segments(check_name) IN
    CheckNameParsed /\ Len(seg) = 4 /\ seg[1] \in MAP_CHECK_PREFIX_TO_HANDLER
        => check_result = Triple(seg[1], seg[3], Some(seg[4]))

\* C10: a name of 4 segments with a known job kind gives
\* (segment1, segment3, segment4), segment 2 discarded, for every job kind
\* and trigger kind when segment 3 is not empty, and None when it is empty.
C10_FourSegments ==
    LET seg == Segments(check_name) IN
    CheckNameParsed /\ Len(seg) = 4 /\ seg[1] \in MAP_CHECK_PREFIX_TO_HANDLER
        => check_result =
            IF NonEmpty(seg[3]) THEN Triple(seg[1], seg[3], Some(seg[4])) ELSE None

C10_Witness ==
    /\ CheckNameParsed
    /\ check_name =
        Join(<< <<"propose-downstream">>, <<"main">>, <<"fedora-34-x86_64">>, <<"myid">> >>)
    /\ project_object = "GitBranchModel"
    /\ check_result = Triple(<<"propose-downstream">>, <<"fedora-34-x86_64">>, Some(<<"myid">>))

----------------------------------------------------------------------------
(* Properties of the dispatcher and the extractors (Spec)                   *)

\* Parser.parse_event has run on event.
ParsedEvent == pc = "done" /\ entry = "parse_event"

\* What the extractor of that name does on the payload of the state.
Outcome(name) == Invoke(name, event)

Declines(name) == Outcome(name).kind = "none"
Produces(name) == Outcome(name).kind = "event"

\* C1: parse_event returns None, and does not raise, for a payload every
\* extractor of its list declines; for an empty payload it returns None and
\* invokes no extractor.
C1_UnrecognizedIsNone ==
    ParsedEvent =>
        /\ (\A name \in Extractors : Declines(name)) => result = NoEvent
        /\ event = EmptyPayload => result = NoEvent /\ calls = << >>

C1_Witness ==
    /\ ParsedEvent
    /\ event # EmptyPayload
    /\ \A name \in Extractors : Declines(name)
    /\ result = NoEvent
    /\ calls = ParserOrder

\* C2: an extractor returns None, and does not raise, for a payload that has
\* its marker and lacks a field it reads: installation.account without action
\* or sender; pull_request without repository.html_url; a merge_request
\* without object_attributes.state or user.username; a GitLab push without
\* "after" or without a commit whose id is checkout_sha; a Pagure
\* pull-request comment whose topic is not an "added" topic.
C2_MarkedButIncompleteIsDeclined ==
    ParsedEvent =>
        /\ /\ HasNode(event, "installation.account")
           /\ Missing(event, "action") \/ ~HasNode(event, "sender")
           => Declines("InstallationEvent")
        /\ /\ HasNode(event, "pull_request")
           /\ Missing(event, "repository.html_url")
           => Declines("PullRequestGithubEvent")
        /\ /\ Get(event, "object_kind") = "merge_request"
           /\ Missing(event, "object_attributes.state") \/ Missing(event, "user.username")
           => Declines("MergeRequestGitlabEvent")
        /\ /\ Get(event, "object_kind") = "push"
           /\ Missing(event, "after") \/ HeadCommit(event).kind # "found"
           => Declines("PushGitlabEvent")
        /\ /\ ContainsInnerParts(Get(event, "topic"), <<"pagure", "pull-request", "comment">>)
           /\ ~ContainsParts(Get(event, "topic"), <<"added">>)
           => Declines("PullRequestCommentPagureEvent")

\* C3: for every payload at most one extractor of parse_event's list returns
\* an event.
C3_MutualExclusivity ==
    ParsedEvent => Cardinality({name \in Extractors : Produces(name)}) <= 1

C5_CommentDispatch ==
    /\ pc = "done" /\ entry = "parse_github_comment_event"
        => /\ calls = <<IF HasNode(event, "issue.pull_request")
                        THEN "PullRequestCommentGithubEvent" ELSE "IssueCommentEvent">>
           /\ result = Outcome(calls[1])
    /\ pc = "done" /\ entry = "parse_gitlab_comment_event"
        => /\ calls = <<IF HasNode(event, "merge_request")
                        THEN "MergeRequestCommentGitlabEvent"
                        ELSE "IssueCommentGitlabEvent">>
           /\ result = Outcome(calls[1])

\* A note with a merge request and an issue goes to the merge-request
\* extractor alone.
C5_Witness ==
    /\ pc = "done" /\ entry = "parse_gitlab_comment_event"
    /\ HasNode(event, "merge_request") /\ HasNode(event, "issue")
    /\ calls = <<"MergeRequestCommentGitlabEvent">>
    /\ result.kind = "event"

----------------------------------------------------------------------------
(* More properties of the check-name grammar (SpecCheckName)                *)

\* C11: parse_check_name returns None whenever the first segment of the name
\* is not a key of MAP_CHECK_PREFIX_TO_HANDLER, for any number of segments
\* and any Project Event, and it has not asked the Project Event for its
\* object by then.
C11_UnknownPrefixFailsFast ==
    /\ CheckNameParsed
    /\ Segments(check_name)[1] \notin MAP_CHECK_PREFIX_TO_HANDLER
    => check_result = None /\ calls = << >>

\* An unknown first segment before a name that would parse otherwise.
C11_Witness ==
    /\ CheckNameParsed
    /\ check_name = Join(<< <<"myid">>, <<"main">>, <<"fedora-34-x86_64">> >>)
    /\ project_object = "GitBranchModel"
    /\ check_result = None
    /\ calls = << >>

----------------------------------------------------------------------------
(* Properties of single extractors (Spec)                                   *)

\* The Project Event object a check run's external_id leads to, None when
\* the id is no number or no row has it.
RerunObject ==
    LET id == int(Get(event, "check_run.external_id")) IN
    IF id = None THEN None ELSE get_by_id(id[1])

\* C12: the sub-variant CheckRerunEvent.parse produces follows the type of
\* the Project Event's object: a pull request gives
\* CheckRerunPullRequestEvent with pr_id, identifier = str(pr_id) and git_ref
\* None; a release gives CheckRerunReleaseEvent with tag_name = git_ref =
\* identifier = the tag; a branch gives CheckRerunCommitEvent with git_ref =
\* identifier = the branch name; commit_sha is the check run's head_sha in
\* all three; an object of another type gives no event.
C12_RerunVariantByObjectType ==
    LET out == Outcome("CheckRerunEvent") IN
    ParsedEvent /\ out.kind = "event" =>
        /\ RerunObject # None
        /\ out.ev.commit_sha = Get(event, "check_run.head_sha")
        /\ LET obj == RerunObject[1] IN
            CASE obj.type = "PullRequestModel" ->
                    /\ out.ev.cls = "CheckRerunPullRequestEvent"
                    /\ out.ev.pr_id = obj.pr_id
                    /\ out.ev.identifier = str(obj.pr_id)
                    /\ out.ev.git_ref = Null
              [] obj.type = "ProjectReleaseModel" ->
                    /\ out.ev.cls = "CheckRerunReleaseEvent"
                    /\ out.ev.tag_name = obj.tag_name
                    /\ out.ev.git_ref = obj.tag_name
                    /\ out.ev.identifier = obj.tag_name
              [] obj.type = "GitBranchModel" ->
                    /\ out.ev.cls = "CheckRerunCommitEvent"
                    /\ out.ev.git_ref = obj.name
                    /\ out.ev.identifier = obj.name
              [] OTHER -> FALSE

\* A rerun of a check whose name carries an identifier, on a release.
C12_Witness ==
    /\ ParsedEvent
    /\ Get(event, "check_run.name") = "rpm-build:fedora-34-x86_64:myid"
    /\ RerunObject # None
    /\ RerunObject[1].type = "ProjectReleaseModel"
    /\ result.kind = "event"
    /\ result.ev.cls = "CheckRerunReleaseEvent"
    /\ result.ev.tag_name = "v1.0"

\* A check_run "rerequested" payload of this deployment's app with an
\* external_id that is a number.
RerunPassesChecks ==
    /\ HasNode(event, "check_run")
    /\ Get(event, "action") = "rerequested"
    /\ deployment = "prod" => Get(event, "check_run.app.slug") = "packit-as-a-service"
    /\ deployment = "stg" => Get(event, "check_run.app.slug") = "packit-as-a-service-stg"
    /\ Truthy(event["check_run.external_id"])
    /\ int(event["check_run.external_id"]) # None

\* C13: when such a payload's Project Event lookup finds nothing,
\* CheckRerunEvent.parse, and so parse_event, ends in a failure the caller
\* can tell from the None of an unrecognized payload.
C13_LookupFailureSurfaced ==
    ParsedEvent /\ RerunPassesChecks /\ RerunObject = None
        => /\ Outcome("CheckRerunEvent").kind = "raise"
           /\ result.kind = "raise"

\* The extractors parse_event tries before the one of that name.
Earlier(name) ==
    {ParserOrder[j] : j \in {i \in 1..Len(ParserOrder) :
                                \E k \in (i + 1)..Len(ParserOrder) : ParserOrder[k] = name}}

\* C14: for a payload with source "testing-farm" and a truthy request_id
\* whose details cannot be fetched, TestingFarmResultsEvent.parse raises, and
\* the exception leaves parse_event when the earlier extractors declined; a
\* payload with another source or without a request_id is declined and no
\* lookup is made.
C14_TestingFarmLookupFailureRaises ==
    ParsedEvent =>
        /\ /\ Get(event, "source") = "testing-farm"
           /\ Truthy(event["request_id"])
           /\ get_request_details(event["request_id"]) = None
           => /\ Outcome("TestingFarmResultsEvent") = Raised("Exception")
              /\ (\A name \in Earlier("TestingFarmResultsEvent") : Declines(name))
                    => result = Raised("Exception")
        /\ Get(event, "source") # "testing-farm" \/ ~Truthy(event["request_id"])
           => /\ Declines("TestingFarmResultsEvent")
              /\ TestingFarmResultsEvent_lookups(event) = << >>

C14_Witness ==
    /\ ParsedEvent
    /\ Get(event, "source") = "testing-farm"
    /\ Get(event, "request_id") = "req-404"
    /\ result = Raised("Exception")
    /\ calls = SubSeq(ParserOrder, 1, 8)

\* The action a merge request ends up with: the state stands in for an
\* action that is not "reopen" or "update".
EffectiveAction ==
    IF Get(event, "object_attributes.action") \in {"reopen", "update"}
    THEN event["object_attributes.action"]
    ELSE Get(event, "object_attributes.state")

\* C15: a payload whose action or state is outside the extractor's
\* vocabulary is declined, no event and no exception: GitHub pull_request
\* actions outside {opened, reopened, synchronize}, GitHub comment actions
\* outside {created, edited}, and GitLab merge requests whose effective
\* action is outside {opened, reopen, update}, state "closed" included.
C15_UnknownVocabularyDeclined ==
    ParsedEvent =>
        /\ /\ HasNode(event, "pull_request")
           /\ Get(event, "action") \notin {"opened", "reopened", "synchronize"}
           => Declines("PullRequestGithubEvent")
        /\ /\ HasNode(event, "issue")
           /\ Get(event, "action") \notin {"created", "edited"}
           => Declines("PullRequestCommentGithubEvent") /\ Declines("IssueCommentEvent")
        /\ /\ Get(event, "object_kind") = "merge_request"
           /\ ~Missing(event, "object_attributes.state")
           /\ EffectiveAction \notin GitlabEventAction
           => Declines("MergeRequestGitlabEvent")

\* C16: PushGitHubEvent.parse returns None for every payload whose
\* "deleted" is truthy, whatever ref, before, head/after/head_commit, pusher
\* and repository are.
C16_DeletedPushDeclined ==
    ParsedEvent /\ Truthy(event["deleted"]) => Declines("PushGitHubEvent")

\* A push that lacks nothing but was a deletion.
C16_Witness ==
    /\ ParsedEvent
    /\ Truthy(event["deleted"])
    /\ Truthy(event["ref"]) /\ Truthy(event["before"]) /\ Truthy(event["after"])
    /\ Truthy(event["pusher.name"])
    /\ Truthy(event["repository.owner.login"]) /\ Truthy(event["repository.name"])
    /\ Declines("PushGitHubEvent")
    /\ result = NoEvent


GitlabBotNames == {"packit-as-a-service", "packit-as-a-service-stg"}

\* A merge-request note that the extractor would accept from any other author.
WellFormedMergeRequestNote(e) ==
    /\ Get(e, "object_kind") = "note"
    /\ HasNode(e, "merge_request")
    /\ Get(e, "merge_request.state") = "opened"
    /\ Truthy(Get(e, "merge_request.source.web_url"))
    /\ Truthy(Get(e, "project.web_url"))
    /\ Truthy(Get(e, "merge_request.last_commit.id"))
    /\ Truthy(Get(e, "merge_request.iid"))
    /\ Truthy(Get(e, "object_attributes.note"))

\* C17: MergeRequestCommentGitlabEvent.parse returns None for every payload
\* whose user.username is 'packit-as-a-service' or 'packit-as-a-service-stg',
\* whatever the rest of the payload holds and whichever entry point received it.
C17_BotMergeRequestCommentDeclined ==
    (pc = "done" /\ entry # "parse_check_name"
        /\ Get(event, "user.username") \in GitlabBotNames)
    => Declines("MergeRequestCommentGitlabEvent")

\* A well-formed merge-request note written by the service itself was declined.
C17_Witness ==
    /\ pc = "done"
    /\ entry = "parse_gitlab_comment_event"
    /\ WellFormedMergeRequestNote(event)
    /\ Get(event, "user.username") = "packit-as-a-service-stg"
    /\ Declines("MergeRequestCommentGitlabEvent")
    /\ result = NoEvent


GithubBotNames == {"packit-as-a-service[bot]", "packit-as-a-service-stg[bot]"}
PagureBotNames == {"packit", "packit-stg"}

\* The comment of the payload was written by one of the service's accounts on
\* the forge the extractor of that name reads.
BotAuthored(name, e) ==
    CASE name \in {"PullRequestCommentGithubEvent", "IssueCommentEvent"}
            -> Get(e, "comment.user.login") \in GithubBotNames
      [] name \in {"MergeRequestCommentGitlabEvent", "IssueCommentGitlabEvent"}
            -> Get(e, "user.username") \in GitlabBotNames
      [] name = "PullRequestCommentPagureEvent"
            -> Get(e, "agent") \in PagureBotNames
      [] OTHER -> FALSE

CommentExtractors ==
    {"PullRequestCommentGithubEvent", "IssueCommentEvent",
     "MergeRequestCommentGitlabEvent", "IssueCommentGitlabEvent",
     "PullRequestCommentPagureEvent"}

\* C18: no comment extractor of any forge produces an event for a comment
\* written by one of the service's own accounts, and no entry point (parse_event
\* or a keyed comment dispatch) returns a comment event for such a comment.
C18_NoEventForBotComment ==
    (pc = "done" /\ entry # "parse_check_name") =>
        /\ \A name \in CommentExtractors :
               BotAuthored(name, event) => ~Produces(name)
        /\ (result.kind = "event" /\ result.ev.cls \in CommentExtractors)
               => ~BotAuthored(result.ev.cls, event)

\* The part of C18 that the code keeps: the three extractors that filter.
C18_FilteringExtractors ==
    (pc = "done" /\ entry # "parse_check_name") =>
        \A name \in {"PullRequestCommentGithubEvent", "MergeRequestCommentGitlabEvent",
                     "PullRequestCommentPagureEvent"} :
            BotAuthored(name, event) => ~Produces(name)


\* C19: InstallationEvent.parse returns None for every payload that has
\* installation.account and whose action is anything other than 'created', and
\* it produces an InstallationEvent only when the action is 'created'.
C19_OnlyCreatedInstallations ==
    (pc = "done" /\ entry # "parse_check_name") =>
        /\ (HasNode(event, "installation.account") /\ Get(event, "action") # "created")
               => Declines("InstallationEvent")
        /\ Produces("InstallationEvent") => Get(event, "action") = "created"

\* The part of C19 that the code keeps: an action that is in the payload and
\* is not 'created' is declined, and only 'created' produces an event.
C19_PresentActionDeclined ==
    (pc = "done" /\ entry # "parse_check_name") =>
        /\ (HasNode(event, "installation.account") /\ ~Missing(event, "action")
                /\ event["action"] # "created")
               => Declines("InstallationEvent")
        /\ Produces("InstallationEvent") => Get(event, "action") = "created"


\* The value of a field of an event, Null when the variant has no such field.
Field(ev, f) == IF f \in DOMAIN ev THEN ev[f] ELSE Null

NamespaceAndName ==
    {<<"repo_namespace", "repo_name">>, <<"target_repo_namespace", "target_repo_name">>,
     <<"project_namespace", "project_name">>, <<"base_repo_namespace", "base_repo_name">>}
RepositoryFields ==
    {"project_url"} \cup UNION {{pair[1], pair[2]} : pair \in NamespaceAndName}
ActorFields == {"actor", "user_login", "username", "committer"}
RefFields == {"git_ref", "commit_sha"}

\* An event whose repository coordinates (namespace and name, or project URL),
\* actor and ref or commit are there, as far as its variant carries them.
FullyValid(ev) ==
    /\ (DOMAIN ev \cap RepositoryFields # {}) =>
           \/ Field(ev, "project_url") # Null
           \/ \E pair \in NamespaceAndName :
                  Field(ev, pair[1]) # Null /\ Field(ev, pair[2]) # Null
    /\ \A f \in DOMAIN ev \cap ActorFields : ev[f] # Null
    /\ (DOMAIN ev \cap RefFields # {}) => \E f \in DOMAIN ev \cap RefFields : ev[f] # Null

\* C20: no extractor constructs a half-valid event: an event has its repository
\* coordinates, its actor and its ref or commit wherever its variant carries
\* them; in particular a GitHub issue comment without repository.owner.login or
\* repository.name is declined.
C20_NoHalfValidEvent ==
    (pc = "done" /\ entry # "parse_check_name") =>
        /\ \A name \in Extractors : Produces(name) => FullyValid(Outcome(name).ev)
        /\ result.kind = "event" => FullyValid(result.ev)
        /\ (~Truthy(Get(event, "repository.owner.login"))
                \/ ~Truthy(Get(event, "repository.name")))
               => Declines("IssueCommentEvent")

\* The clause of C20 on GitHub issue comments, alone.
C20_IssueCommentNeedsRepository ==
    (pc = "done" /\ entry # "parse_check_name") =>
        ((~Truthy(Get(event, "repository.owner.login"))
                \/ ~Truthy(Get(event, "repository.name")))
            => Declines("IssueCommentEvent"))

\* The general part of C20 for each extractor the claim names.
C20_PipelineFullyValid ==
    (pc = "done" /\ entry # "parse_check_name" /\ Produces("PipelineGitlabEvent"))
        => FullyValid(Outcome("PipelineGitlabEvent").ev)

C20_FlagFullyValid ==
    (pc = "done" /\ entry # "parse_check_name" /\ Produces("PullRequestFlagPagureEvent"))
        => FullyValid(Outcome("PullRequestFlagPagureEvent").ev)


GitlabPushExtractors == {"PushGitlabEvent", "TagPushGitlabEvent"}

\* C23: PushGitlabEvent.parse and TagPushGitlabEvent.parse return None for
\* every push whose ref was deleted ('after' starts with zeros) and for every
\* push that lacks ref, commits, before or user_username; the commit_sha of an
\* accepted push is the id of the commit whose id equals checkout_sha.
C23_GitlabPushFilter ==
    (pc = "done" /\ entry # "parse_check_name") =>
        \A name \in GitlabPushExtractors :
            /\ (Truthy(Get(event, "after")) /\ StartsWithZeros(Get(event, "after")))
                   => Declines(name)
            /\ (~Truthy(Get(event, "ref")) \/ ~HasNode(event, "commits")
                    \/ ~Truthy(Get(event, "before")) \/ ~Truthy(Get(event, "user_username")))
                   => Declines(name)
            /\ Produces(name) =>
                   /\ Outcome(name).ev.commit_sha = Get(event, "checkout_sha")
                   /\ Outcome(name).ev.commit_sha
                          \in {Get(event, "commits.0.id"), Get(event, "commits.1.id")}
                   /\ Truthy(Outcome(name).ev.commit_sha)

\* An accepted push whose head commit is the second of the list.
C23_Witness ==
    /\ ParsedEvent
    /\ result.kind = "event"
    /\ result.ev.cls = "PushGitlabEvent"
    /\ result.ev.commit_sha = Get(event, "commits.1.id")
    /\ result.ev.commit_sha # Get(event, "commits.0.id")


\* action when it is 'reopen' or 'update', the state otherwise
StateFallback(action, state) ==
    IF action \in {"reopen", "update"} THEN action ELSE state

\* C24: the action of a produced MergeRequestGitlabEvent,
\* MergeRequestCommentGitlabEvent or IssueCommentGitlabEvent is the payload's
\* action when that is 'reopen' or 'update' and the object's state otherwise;
\* a merge request is considered only in state opened or closed, a
\* merge-request or issue comment only in state opened.
C24_GitlabStateFallback ==
    (pc = "done" /\ entry # "parse_check_name") =>
        /\ Produces("MergeRequestGitlabEvent") =>
               /\ Get(event, "object_attributes.state") \in {"opened", "closed"}
               /\ Outcome("MergeRequestGitlabEvent").ev.action
                      = StateFallback(Get(event, "object_attributes.action"),
                                      Get(event, "object_attributes.state"))
        /\ Produces("MergeRequestCommentGitlabEvent") =>
               /\ Get(event, "merge_request.state") = "opened"
               /\ Outcome("MergeRequestCommentGitlabEvent").ev.action
                      = StateFallback(Get(event, "merge_request.action"),
                                      Get(event, "merge_request.state"))
        /\ Produces("IssueCommentGitlabEvent") =>
               /\ Get(event, "issue.state") = "opened"
               /\ Outcome("IssueCommentGitlabEvent").ev.action
                      = StateFallback(Get(event, "object_attributes.action"),
                                      Get(event, "issue.state"))
        /\ (~Missing(event, "object_attributes.state")
                /\ event["object_attributes.state"] \notin {"opened", "closed"})
               => Declines("MergeRequestGitlabEvent")
        /\ Get(event, "merge_request.state") # "opened"
               => Declines("MergeRequestCommentGitlabEvent")
        /\ Get(event, "issue.state") # "opened" => Declines("IssueCommentGitlabEvent")

\* A merge request whose action 'open' gave way to its state 'opened'.
C24_Witness ==
    /\ pc = "done" /\ entry = "parse_event"
    /\ result.kind = "event"
    /\ result.ev.cls = "MergeRequestGitlabEvent"
    /\ Get(event, "object_attributes.action") = "open"
    /\ Get(event, "object_attributes.state") = "opened"
    /\ result.ev.action = "opened"


\* The topic is <prefix>.git.receive, for a prefix of at least one part.
IsGitReceiveTopic(topic) ==
    LET tp == TopicParts(topic)
    IN  Len(tp) >= 3 /\ PartsAt(tp, <<"git", "receive">>, Len(tp) - 1)

\* C25: a fedora-messaging payload whose topic is *.git.receive, with any
\* prefix, and that carries commit namespace, repo, branch and rev, is
\* recognized as a Pagure push event by PushPagureEvent.parse.
C25_AnyPrefixGitReceive ==
    (pc = "done" /\ entry # "parse_check_name"
        /\ IsGitReceiveTopic(Get(event, "topic"))
        /\ Truthy(Get(event, "commit.namespace")) /\ Truthy(Get(event, "commit.repo"))
        /\ Truthy(Get(event, "commit.branch")) /\ Truthy(Get(event, "commit.rev")))
    => Produces("PushPagureEvent")

\* The part of C25 that the code keeps: the production topic.
C25_ProdGitReceive ==
    (pc = "done" /\ entry # "parse_check_name"
        /\ Get(event, "topic") = T_PUSH_PROD
        /\ Truthy(Get(event, "commit.namespace")) /\ Truthy(Get(event, "commit.repo"))
        /\ Truthy(Get(event, "commit.branch")) /\ Truthy(Get(event, "commit.rev")))
    => Produces("PushPagureEvent")


\* The payload has no leaf besides those of the shapes.
OnlyLeavesOf(e, shapes) ==
    \A p \in DOMAIN e : e[p] # Absent => \E shape \in shapes : p \in DOMAIN Template(shape)

\* What the issue_comment webhook of GitHub and the Note Hook of GitLab carry.
IsGithubIssueComment(e) == OnlyLeavesOf(e, GithubCommentShapes)
IsGitlabNote(e) == OnlyLeavesOf(e, GitlabCommentShapes) /\ Get(e, "object_kind") = "note"

\* C26: the keyed comment dispatch and the ordered scan agree: on every GitHub
\* issue_comment payload parse_github_comment_event returns what
\* Parser.parse_event returns, and on every GitLab note, one with both a merge
\* request and an issue included, parse_gitlab_comment_event returns what
\* Parser.parse_event returns.
C26_DispatchAgreesWithScan ==
    /\ (pc = "done" /\ entry = "parse_github_comment_event" /\ IsGithubIssueComment(event))
           => result = parse_event(event).out
    /\ (pc = "done" /\ entry = "parse_gitlab_comment_event" /\ IsGitlabNote(event))
           => result = parse_event(event).out

\* The GitHub half of C26.
C26_GithubDispatchAgrees ==
    (pc = "done" /\ entry = "parse_github_comment_event" /\ IsGithubIssueComment(event))
        => result = parse_event(event).out

\* The GitLab half of C26 for the notes that carry one of the two objects.
C26_GitlabSingleObjectAgrees ==
    (pc = "done" /\ entry = "parse_gitlab_comment_event" /\ IsGitlabNote(event)
        /\ ~(HasNode(event, "merge_request") /\ HasNode(event, "issue")))
        => result = parse_event(event).out


CheckRerunClasses ==
    {"CheckRerunPullRequestEvent", "CheckRerunCommitEvent", "CheckRerunReleaseEvent"}

\* parse_event returned a CheckRerunEvent.
RerunProduced ==
    pc = "done" /\ entry = "parse_event"
        /\ result.kind = "event" /\ result.ev.cls \in CheckRerunClasses

\* 1 for an override that is set, 0 for None
IsSet(override) == IF override = None THEN 0 ELSE 1

\* C27: of build_targets_override, tests_targets_override and branches_override
\* of a CheckRerunEvent at most one is not None, and one that is not None is the
\* set {check_name_target}: the build override for the jobs rpm-build,
\* production-build and koji-build, the tests override for testing-farm, the
\* branches override for propose-downstream, none for any other job.
C27_OneOverride ==
    RerunProduced =>
        LET ev == result.ev
            job == ev.check_name_job
            target == Some({ev.check_name_target})
        IN  /\ IsSet(build_targets_override(ev)) + IsSet(tests_targets_override(ev))
                   + IsSet(branches_override(ev)) <= 1
            /\ build_targets_override(ev)
                   = IF job \in {<<"rpm-build">>, <<"production-build">>, <<"koji-build">>}
                     THEN target ELSE None
            /\ tests_targets_override(ev) = IF job = <<"testing-farm">> THEN target ELSE None
            /\ branches_override(ev)
                   = IF job = <<"propose-downstream">> THEN target ELSE None

\* A rerun of an rpm-build check: only the build override is set.
C27_Witness ==
    /\ RerunProduced
    /\ result.ev.check_name_job = <<"rpm-build">>
    /\ build_targets_override(result.ev) = Some({<<"fedora-34-x86_64">>})
    /\ tests_targets_override(result.ev) = None
    /\ branches_override(result.ev) = None


\* The event CheckRerunEvent.parse builds from a parsed check name, for a
\* complete check_run payload and a Project Event of the object's type.
RerunEventsOf(parsed, obj) ==
    {CheckRerunVariant(Payload(Template("github.check_run")), db[i], parsed) :
        i \in {j \in DOMAIN db : db[j].type = obj}}

\* C28: parse_check_name never returns a triple with an empty or null job or
\* target: a name of a single segment and a name whose selected target segment
\* is empty yield None, and so every event CheckRerunEvent.parse builds has a
\* non-empty check_name_job and check_name_target.
C28_JobAndTargetNonEmpty ==
    CheckNameParsed =>
        /\ check_result # None =>
               /\ NonEmpty(check_result[1].job)
               /\ NonEmpty(check_result[1].target)
               /\ \A out \in RerunEventsOf(check_result[1], project_object) :
                      out.kind = "event" =>
                          /\ NonEmpty(out.ev.check_name_job)
                          /\ NonEmpty(out.ev.check_name_target)
        /\ Len(Segments(check_name)) = 1 => check_result = None
        /\ check_name_fields(Split(check_name, 3), project_object).target = Some(<< >>)
               => check_result = None

\* "rpm-build:" was parsed: a known job, an empty target, no result.
C28_Witness ==
    /\ CheckNameParsed
    /\ check_name = <<"rpm-build", Colon>>
    /\ check_result = None


----------------------------------------------------------------------------
(* Parallel classification: several Parser.parse_event calls, each in its   *)
(* own worker, interleaved extractor by extractor.  A call has only local   *)
(* variables (the payload, the position of the scan); the workers share the *)
(* persistence and the Testing Farm API, which the extractors read.         *)

Workers == {"w1", "w2"}

\* A variant of the CheckRerun path that stamps the Project Event it found.
CheckRerunEvent_lookups_stamps_event(e) ==
    IF ~(HasNode(e, "check_run") /\ Get(e, "action") = "rerequested") THEN << >>
    ELSE <<"ProjectEventModel.get_by_id", "ProjectEventModel.set_rerun_requested">>

\* The collaborator operations CheckRerunEvent.parse performs on a payload.
CheckRerunEvent_lookups(e) ==
    LET app == Get(e, "check_run.app.slug")
        external_id == Get(e, "check_run.external_id")
    IN  IF ~(HasNode(e, "check_run") /\ Get(e, "action") = "rerequested") THEN << >>
        ELSE IF \/ (deployment = "prod" /\ app # "packit-as-a-service")
                \/ (deployment = "stg" /\ app # "packit-as-a-service-stg")
        THEN << >>
        ELSE IF ~Truthy(external_id) THEN << >>
        ELSE IF int(external_id) = None THEN << >>
        ELSE IF get_by_id(int(external_id)[1]) = None
        THEN <<"ProjectEventModel.get_by_id">>
        ELSE <<"ProjectEventModel.get_by_id",
               "ProjectEventModel.get_project_event_object">>

\* The collaborator operations of the extractor of that name on a payload.
Lookups(name, e) ==
    CASE name = "CheckRerunEvent"         -> CheckRerunEvent_lookups(e)
      [] name = "TestingFarmResultsEvent" -> TestingFarmResultsEvent_lookups(e)
      [] OTHER                            -> << >>

\* The operations of the collaborators that only read.
ReadOperations ==
    {"ProjectEventModel.get_by_id", "ProjectEventModel.get_project_event_object",
     "TFTTestRunTargetModel.get_by_pipeline_id",
     "TestingFarmJobHelper.get_request_details"}

\* The payloads the workers classify: the two that reach the collaborators,
\* found and not found, and payloads of other sources.
ParallelPayloads ==
    {Payload(Template(shape)) :
        shape \in {"github.check_run", "testing_farm.results", "github.issue_comment",
                   "gitlab.push", "hotness"}}
    \cup {MutatedPayload("github.check_run", {<<"check_run.external_id", "9">>}),
          MutatedPayload("github.check_run", {<<"check_run.external_id", "3">>}),
          MutatedPayload("testing_farm.results", {<<"request_id", "req-404">>}),
          EmptyPayload}

Pending == [kind |-> "pending"]

InitParallel ==
    /\ InitCommon
    /\ deployment = "prod"
    /\ db = InitialDb
    /\ tf_known = {"req-1"}
    /\ event = EmptyPayload
    /\ result = NoEvent
    /\ calls = << >>
    /\ workers \in [Workers ->
                      {[event |-> e, at |-> 0, out |-> Pending, io |-> << >>] :
                          e \in ParallelPayloads}]
    /\ hotness_events = << >>
    /\ release_db = << >>
    /\ osh = << >>

Running(w) == workers[w].out = Pending

\* `if not event: return None`, else the scan begins.
EnterParseEvent(w) ==
    /\ Running(w) /\ workers[w].at = 0
    /\ workers' = [workers EXCEPT ![w] =
                      IF Falsy(@.event) THEN [@ EXCEPT !.out = NoEvent]
                      ELSE [@ EXCEPT !.at = 1]]
    /\ UNCHANGED <<parser_vars, hotness_events, release_db, osh>>

\* The loop asks for the next response: one extractor runs on the payload.
\* No extractor writes, so the persistence is left as it was.
InvokeNextParser(w) ==
    /\ Running(w) /\ workers[w].at \in 1..Len(ParserOrder)
    /\ LET name == ParserOrder[workers[w].at]
           response == Invoke(name, workers[w].event)
           io == workers[w].io \o Lookups(name, workers[w].event)
       IN  workers' = [workers EXCEPT ![w] =
               IF response.kind = "event" THEN [@ EXCEPT !.out = response, !.io = io]
               ELSE IF response.kind = "raise"
               THEN [@ EXCEPT !.out = IF response.exc = "StopIteration"
                                      THEN NoEvent ELSE response,
                              !.io = io]
               ELSE [@ EXCEPT !.at = @ + 1, !.io = io]]
    /\ UNCHANGED <<parser_vars, hotness_events, release_db, osh>>

\* The loop ended without a truthy response: `return None`.
ReturnNone(w) ==
    /\ Running(w) /\ workers[w].at = Len(ParserOrder) + 1
    /\ workers' = [workers EXCEPT ![w].out = NoEvent]
    /\ UNCHANGED <<parser_vars, hotness_events, release_db, osh>>

NextParallel ==
    \E w \in Workers : EnterParseEvent(w) \/ InvokeNextParser(w) \/ ReturnNone(w)

SpecParallel == InitParallel /\ [][NextParallel]_vars

\* The operations a whole parse_event call performs, run alone.
RECURSIVE LookupsOfCalls(_, _)
LookupsOfCalls(names, e) ==
    IF names = << >> THEN << >>
    ELSE Lookups(Head(names), e) \o LookupsOfCalls(Tail(names), e)

----------------------------------------------------------------------------
(* NewHotnessUpdateEvent (worker/events/new_hotness.py): the lazily         *)
(* computed properties of an event instance.  Each instance belongs to one  *)
(* task; instances share the persistence, where add_release_event gets or   *)
(* creates the release and its Project Event in one transaction.            *)

HotnessInstances == {"e1", "e2"}

\* The counters of calls stop counting here.
CallsCap == 3

Capped(n) == IF n < CallsCap THEN n + 1 ELSE CallsCap

UPSTREAM_URL == "https://github.com/packit/hello-world"

\* What PackageConfigGetter.get_package_config_from_repo can find in the
\* dist-git repository: no config, or one with or without an upstream URL
\* and a tag template.
PackageConfigs ==
    {None,
     Some([upstream_project_url |-> Null, upstream_tag_template |-> Null]),
     Some([upstream_project_url |-> UPSTREAM_URL, upstream_tag_template |-> Null]),
     Some([upstream_project_url |-> UPSTREAM_URL, upstream_tag_template |-> "v{version}"]),
     Some([upstream_project_url |-> "not-a-url", upstream_tag_template |-> Null])}

\* RepoUrl.parse(potential_url): None without a URL it can read.
RepoUrl_parse(url) ==
    IF url = UPSTREAM_URL THEN Some([namespace |-> "packit", repo |-> "hello-world"])
    ELSE None

\* upstream_tag_template.format(version=version)
FormatTag(template, version) ==
    CASE template = "v{version}" /\ version = "1.0" -> "v1.0"
      [] template = "v{version}" /\ version = "1.1" -> "v1.1"
      [] template = "v{version}" /\ version = Null  -> "vNone"
      [] OTHER -> template

\* NewHotnessUpdateEvent(package_name, version, distgit_project_url), as
\* Event.__init__ and __init__ leave it.
NewHotnessUpdateEvent(version) ==
    [version |-> version,
     _package_config |-> None,
     _package_config_searched |-> FALSE,
     _repo_url |-> None,
     _db_project_object |-> None,
     _db_project_event |-> None,
     at |-> "idle",          \* or "add_release_event": about to call the persistence
     args |-> None,          \* the arguments of the pending add_release_event
     lookups |-> 0,          \* calls of get_packages_config
     adds |-> 0,             \* calls of add_release_event
     reads |-> 0,            \* property reads that returned
     asked |-> FALSE]        \* db_project_object or db_project_event was read

\* A variant that does not remember a search that found nothing.
packages_config_forgets_search(ev, found) ==
    IF ~ev._package_config_searched /\ ev._package_config = None
    THEN [ev |-> [ev EXCEPT !._package_config = found,
                            !._package_config_searched = (found # None),
                            !.lookups = Capped(@)],
          value |-> found]
    ELSE [ev |-> ev, value |-> ev._package_config]

\* The property packages_config, read when the repository holds `found`: the
\* instance after the read and the value read.
packages_config(ev, found) ==
    IF ~ev._package_config_searched /\ ev._package_config = None
    THEN [ev |-> [ev EXCEPT !._package_config = found,
                            !._package_config_searched = TRUE,
                            !.lookups = Capped(@)],
          value |-> found]
    ELSE [ev |-> ev, value |-> ev._package_config]

project_url(ev, found) ==
    LET first == packages_config(ev, found) IN
    IF first.value = None THEN [ev |-> first.ev, value |-> Null]
    ELSE LET second == packages_config(first.ev, found)
         IN  [ev |-> second.ev, value |-> second.value[1].upstream_project_url]

repo_url(ev, found) ==
    IF ev._repo_url = None
    THEN LET url == project_url(ev, found)
         IN  [ev |-> [url.ev EXCEPT !._repo_url = RepoUrl_parse(url.value)],
              value |-> RepoUrl_parse(url.value)]
    ELSE [ev |-> ev, value |-> ev._repo_url]

repo_namespace(ev, found) ==
    LET first == repo_url(ev, found) IN
    IF first.value = None THEN [ev |-> first.ev, value |-> Null]
    ELSE LET second == repo_url(first.ev, found)
         IN  [ev |-> second.ev, value |-> second.value[1].namespace]

repo_name(ev, found) ==
    LET first == repo_url(ev, found) IN
    IF first.value = None THEN [ev |-> first.ev, value |-> Null]
    ELSE LET second == repo_url(first.ev, found)
         IN  [ev |-> second.ev, value |-> second.value[1].repo]

tag_name(ev, found) ==
    LET first == packages_config(ev, found) IN
    IF first.value = None THEN [ev |-> first.ev, value |-> ev.version]
    ELSE LET second == packages_config(first.ev, found) IN
        IF second.value[1].upstream_tag_template = Null
        THEN [ev |-> second.ev, value |-> ev.version]
        ELSE LET third == packages_config(second.ev, found)
             IN  [ev |-> third.ev,
                  value |-> FormatTag(third.value[1].upstream_tag_template, ev.version)]

\* `not self._db_project_object or not self._db_project_event`
Unresolved(ev) == ev._db_project_object = None \/ ev._db_project_event = None

\* A variant that asks only for the tag before it calls the persistence.
PrepareAddReleaseEvent_checks_tag_only(ev, found) ==
    IF ~Unresolved(ev) THEN [ev |-> ev, args |-> None]
    ELSE LET tag == tag_name(ev, found) IN
    IF tag.value = Null THEN [ev |-> tag.ev, args |-> None]
    ELSE LET tag_arg == tag_name(tag.ev, found)
             namespace_arg == repo_namespace(tag_arg.ev, found)
             name_arg == repo_name(namespace_arg.ev, found)
             url_arg == project_url(name_arg.ev, found)
         IN  [ev |-> url_arg.ev,
              args |-> Some([tag_name |-> tag_arg.value,
                             namespace |-> namespace_arg.value,
                             repo_name |-> name_arg.value,
                             project_url |-> url_arg.value])]

\* _add_release_and_event up to the call of the persistence: the instance
\* after the reads of the four properties, and the arguments of the call, or
\* None when the pair is resolved or an argument is missing.
PrepareAddReleaseEvent(ev, found) ==
    IF ~Unresolved(ev) THEN [ev |-> ev, args |-> None]
    ELSE LET tag == tag_name(ev, found) IN
    IF tag.value = Null THEN [ev |-> tag.ev, args |-> None]
    ELSE LET name == repo_name(tag.ev, found) IN
    IF name.value = Null THEN [ev |-> name.ev, args |-> None]
    ELSE LET namespace == repo_namespace(name.ev, found) IN
    IF namespace.value = Null THEN [ev |-> namespace.ev, args |-> None]
    ELSE LET url == project_url(namespace.ev, found) IN
    IF url.value = Null THEN [ev |-> url.ev, args |-> None]
    ELSE LET tag_arg == tag_name(url.ev, found)
             namespace_arg == repo_namespace(tag_arg.ev, found)
             name_arg == repo_name(namespace_arg.ev, found)
             url_arg == project_url(name_arg.ev, found)
         IN  [ev |-> url_arg.ev,
              args |-> Some([tag_name |-> tag_arg.value,
                             namespace |-> namespace_arg.value,
                             repo_name |-> name_arg.value,
                             project_url |-> url_arg.value])]

\* The index of the first row equal to row, 0 when there is none.
IndexOf(rows, row) ==
    IF \E i \in 1..Len(rows) : rows[i] = row
    THEN CHOOSE i \in 1..Len(rows) : rows[i] = row /\ \A j \in 1..(i - 1) : rows[j] # row
    ELSE 0

\* get_or_create of a table: the table and the id of the row.
GetOrCreate(rows, row) ==
    IF IndexOf(rows, row) # 0 THEN [rows |-> rows, id |-> IndexOf(rows, row)]
    ELSE [rows |-> Append(rows, row), id |-> Len(rows) + 1]

\* ProjectEventModel.add_release_event(tag_name, namespace, repo_name,
\* project_url, commit_hash): the release of that project and tag and its
\* Project Event, each got or created.
add_release_event(store, args) ==
    LET release == GetOrCreate(store.releases, args)
        project_event == GetOrCreate(store.events,
                                     [type |-> "release", event_id |-> release.id])
    IN  [store |-> [releases |-> release.rows, events |-> project_event.rows],
         db_project_object |-> release.id,
         db_project_event |-> project_event.id]

HotnessVersions == {"1.0", Null}

InitHotness ==
    /\ InitCommon
    /\ deployment = "prod"
    /\ db = InitialDb
    /\ tf_known = {"req-1"}
    /\ event = EmptyPayload
    /\ result = NoEvent
    /\ calls = << >>
    /\ workers = << >>
    /\ hotness_events \in [HotnessInstances ->
                             {NewHotnessUpdateEvent(v) : v \in HotnessVersions}]
    /\ release_db = [releases |-> << >>, events |-> << >>]
    /\ osh = << >>

Idle(i) == hotness_events[i].at = "idle"

\* The instance after a read of a property returned.
Returned(ev) == [ev EXCEPT !.reads = Capped(@)]

PlainProperties ==
    {"packages_config", "project_url", "repo_url", "repo_namespace", "repo_name", "tag_name"}

\* The instance after a read of the named property.
AfterRead(property, ev, found) ==
    CASE property = "packages_config" -> packages_config(ev, found).ev
      [] property = "project_url" -> project_url(ev, found).ev
      [] property = "repo_url" -> repo_url(ev, found).ev
      [] property = "repo_namespace" -> repo_namespace(ev, found).ev
      [] property = "repo_name" -> repo_name(ev, found).ev
      [] property = "tag_name" -> tag_name(ev, found).ev

\* A read of one of the properties that need no Project Event.
ReadProperty(i) ==
    /\ Idle(i)
    /\ \E found \in PackageConfigs :
        \E property \in PlainProperties :
            hotness_events' = [hotness_events EXCEPT ![i] =
                Returned(AfterRead(property, hotness_events[i], found))]
    /\ UNCHANGED <<parser_vars, workers, release_db, osh>>

\* A read of db_project_object or db_project_event, up to the call of the
\* persistence; it returns at once when there is no call to make.
ReadDbProperty(i) ==
    /\ Idle(i)
    /\ \E found \in PackageConfigs, property \in {"db_project_object", "db_project_event"} :
        LET ev == hotness_events[i]
            needed == IF property = "db_project_object"
                      THEN ev._db_project_object = None
                      ELSE ev._db_project_event = None
            prepared == PrepareAddReleaseEvent(ev, found)
        IN  hotness_events' = [hotness_events EXCEPT ![i] =
                IF ~needed THEN [Returned(ev) EXCEPT !.asked = TRUE]
                ELSE IF prepared.args = None
                THEN [Returned(prepared.ev) EXCEPT !.asked = TRUE]
                ELSE [prepared.ev EXCEPT !.at = "add_release_event",
                                         !.args = prepared.args]]
    /\ UNCHANGED <<parser_vars, workers, release_db, osh>>

\* The call of add_release_event, the assignment of its pair, and the return
\* of the property.
AddReleaseEvent(i) ==
    /\ hotness_events[i].at = "add_release_event"
    /\ LET added == add_release_event(release_db, hotness_events[i].args[1])
       IN  /\ release_db' = added.store
           /\ hotness_events' = [hotness_events EXCEPT ![i] =
                  [Returned(@) EXCEPT !._db_project_object = Some(added.db_project_object),
                                      !._db_project_event = Some(added.db_project_event),
                                      !.at = "idle",
                                      !.args = None,
                                      !.adds = Capped(@),
                                      !.asked = TRUE]]
    /\ UNCHANGED <<parser_vars, workers, osh>>

NextHotness ==
    \E i \in HotnessInstances : ReadProperty(i) \/ ReadDbProperty(i) \/ AddReleaseEvent(i)

SpecHotness == InitHotness /\ [][NextHotness]_vars


----------------------------------------------------------------------------
(* C30 and C22: the lazily computed properties of NewHotnessUpdateEvent.    *)

\* C30: an instance of NewHotnessUpdateEvent looks its package config up at
\* most once: after the first read, whether it found a config or None, no
\* later read of packages_config, project_url, repo_url, tag_name,
\* db_project_object or db_project_event calls get_packages_config again.
C30_AtMostOneLookup ==
    \A i \in HotnessInstances : hotness_events[i].lookups <= 1

\* An instance whose only lookup found nothing and which was read again and
\* again afterwards, db_project_object or db_project_event included.
C30_Witness ==
    \E i \in HotnessInstances :
        /\ hotness_events[i].lookups = 1
        /\ hotness_events[i]._package_config = None
        /\ hotness_events[i].reads = CallsCap
        /\ hotness_events[i].asked

\* The four values an instance passes to add_release_event, as its cached
\* state gives them.
ReleaseOf(ev) ==
    [tag_name |-> tag_name(ev, None).value,
     namespace |-> repo_namespace(ev, None).value,
     repo_name |-> repo_name(ev, None).value,
     project_url |-> project_url(ev, None).value]

AllFourSet(ev) ==
    /\ ReleaseOf(ev).tag_name # Null
    /\ ReleaseOf(ev).namespace # Null
    /\ ReleaseOf(ev).repo_name # Null
    /\ ReleaseOf(ev).project_url # Null

\* The Project Events of a release of a project.
ProjectEventsOf(release) ==
    {k \in 1..Len(release_db.events) :
        /\ release_db.events[k].type = "release"
        /\ release_db.events[k].event_id \in 1..Len(release_db.releases)
        /\ release_db.releases[release_db.events[k].event_id] = release}

\* C22: after any interleaving of reads of db_project_object and
\* db_project_event on one or several instances, an instance whose tag_name,
\* repo_name, repo_namespace and project_url are all set is bound to the one
\* Project Event that exists for its release; an instance that lacks any of
\* the four has created no record and both its properties stay None; and no
\* instance calls add_release_event more than once.
C22_OneProjectEventPerRelease ==
    \A i \in HotnessInstances :
        LET ev == hotness_events[i] IN
        /\ ev.adds <= 1
        /\ (ev.asked /\ ev.at = "idle") =>
            IF AllFourSet(ev)
            THEN /\ Cardinality(ProjectEventsOf(ReleaseOf(ev))) = 1
                 /\ ev._db_project_event # None
                 /\ ev._db_project_event[1] \in ProjectEventsOf(ReleaseOf(ev))
                 /\ ev._db_project_object # None
                 /\ release_db.releases[ev._db_project_object[1]] = ReleaseOf(ev)
            ELSE /\ ev._db_project_object = None
                 /\ ev._db_project_event = None
                 /\ ev.adds = 0

\* Two instances about the same release, each of which called
\* add_release_event, bound to the same single Project Event, beside nothing
\* else in the tables.
C22_Witness ==
    /\ \A i \in HotnessInstances :
        /\ hotness_events[i].asked
        /\ hotness_events[i].at = "idle"
        /\ hotness_events[i].adds = 1
        /\ hotness_events[i].reads = CallsCap
    /\ hotness_events["e1"]._db_project_event = hotness_events["e2"]._db_project_event
    /\ Len(release_db.events) = 1
    /\ Len(release_db.releases) = 1

\* An instance without an upstream URL that was asked for its Project Event.
C22_NothingCreatedWithoutUrl ==
    \E i \in HotnessInstances :
        /\ hotness_events[i].asked
        /\ ~AllFourSet(hotness_events[i])
        /\ hotness_events[i]._package_config # None


----------------------------------------------------------------------------
(* OpenScanHubHelper.handle_scan (worker/helpers/open_scan_hub.py): the     *)
(* steps of one call, with the calls it makes logged in order.              *)

\* Job views of a package config: [type, trigger, branch].
Job(type, trigger, branch) == [type |-> type, trigger |-> trigger, branch |-> branch]

JobViews ==
    {<< >>,
     <<Job("tests", "pull_request", Null)>>,
     <<Job("tests", "commit", "main")>>,
     <<Job("copr_build", "pull_request", "main")>>,
     <<Job("copr_build", "commit", "main")>>,
     <<Job("copr_build", "commit", Null)>>,
     <<Job("build", "commit", "f39")>>,
     <<Job("copr_build", "pull_request", Null), Job("build", "commit", "main")>>,
     <<Job("copr_build", "commit", "f39"), Job("copr_build", "commit", Null)>>}

TargetBranches == {"main", "f39"}
DefaultBranch == "main"

\* project.get_commits(target_branch), the head of the branch first.
TargetBranchCommits == <<"c3", "c2", "c1">>
TargetBranchHeadCommit == "c3"

\* Whether the job can provide the base build.
ProvidesBaseBuild(job, target_branch) ==
    /\ job.type \in {"copr_build", "build"}
    /\ job.trigger = "commit"
    /\ \/ job.branch # Null /\ job.branch = target_branch
       \/ job.branch = Null /\ DefaultBranch = target_branch

\* find_base_build_job: the first job that provides the base build, or None.
find_base_build_job(jobs, target_branch) ==
    LET fit == {k \in 1..Len(jobs) : ProvidesBaseBuild(jobs[k], target_branch)}
    IN  IF fit = {} THEN None
        ELSE Some(jobs[CHOOSE k \in fit : \A other \in fit : k <= other])

\* get_base_srpm_model: the SRPM of the successful build of the head commit,
\* else of the first later commit of the branch that has one, else None.
\* `successful` holds the commits with a successful build.
get_base_srpm_model(successful) ==
    IF TargetBranchHeadCommit \in successful THEN Some(TargetBranchHeadCommit)
    ELSE LET later == {k \in 2..Len(TargetBranchCommits) :
                          TargetBranchCommits[k] \in successful}
         IN  IF later = {} THEN None
             ELSE Some(TargetBranchCommits[CHOOSE k \in later : \A other \in later : k <= other])

Called(call, ok) == [call |-> call, ok |-> ok]

\* A variant that downloads the SRPM of the pull request whatever became of
\* the base SRPM.
download_srpms_tries_both(base_ok, srpm_ok) ==
    [calls |-> <<Called("download_srpm:base", base_ok), Called("download_srpm:pr", srpm_ok)>>,
     paths |-> IF base_ok /\ srpm_ok THEN Some(<<"base.src.rpm", "pr.src.rpm">>) ELSE None]

\* download_srpms, when download_file answers base_ok for the base SRPM and
\* srpm_ok for the SRPM of the pull request: the downloads made, and the two
\* paths or None.
download_srpms(base_ok, srpm_ok) ==
    IF ~base_ok
    THEN [calls |-> <<Called("download_srpm:base", FALSE)>>, paths |-> None]
    ELSE IF ~srpm_ok
    THEN [calls |-> <<Called("download_srpm:base", TRUE), Called("download_srpm:pr", FALSE)>>,
          paths |-> None]
    ELSE [calls |-> <<Called("download_srpm:base", TRUE), Called("download_srpm:pr", TRUE)>>,
          paths |-> Some(<<"base.src.rpm", "pr.src.rpm">>)]

\* The output of run_osh_build is a sequence of chunks: plain text, a JSON
\* object with an id and a url (either of which may be absent or empty), or
\* text in braces that is no JSON.
MaxChunks == 2

OSH_URL == "https://openscanhub.example/task/42"
ResponseIds == {Absent, "int:0", "int:42"}
ResponseUrls == {Absent, "", OSH_URL}

Chunk(kind, id, url) == [kind |-> kind, id |-> id, url |-> url]

Chunks ==
    {Chunk("text", Absent, Absent), Chunk("broken", Absent, Absent)}
    \cup {Chunk("json", id, url) : id \in ResponseIds, url \in ResponseUrls}

Outputs == UNION {[1..n -> Chunks] : n \in 0..MaxChunks}

\* Truth value of a JSON value.
TruthyJson(v) == v \notin {Absent, Null, "", "int:0"}

\* parse_dict_from_output: json.loads of the last match of \{.*?\}, {} when
\* nothing matches; json.loads raises on a match that is no JSON.
parse_dict_from_output(output) ==
    LET matches == SelectSeq(output, LAMBDA chunk : chunk.kind # "text") IN
    IF matches = << >> THEN [raised |-> FALSE, id |-> Absent, url |-> Absent]
    ELSE LET last == matches[Len(matches)]
         IN  [raised |-> last.kind = "broken", id |-> last.id, url |-> last.url]

OpenScanHubHelper(jobs, target_branch) ==
    [pc |-> "find_base_build_job",
     jobs |-> jobs,
     target_branch |-> target_branch,
     base_build_job |-> None,
     base_srpm_model |-> None,
     paths |-> None,
     output |-> << >>,
     response |-> [raised |-> FALSE, id |-> Absent, url |-> Absent],
     scan |-> None,
     log |-> << >>]

InitScan ==
    /\ InitCommon
    /\ deployment = "prod"
    /\ db = InitialDb
    /\ tf_known = {"req-1"}
    /\ event = EmptyPayload
    /\ result = NoEvent
    /\ calls = << >>
    /\ workers = << >>
    /\ hotness_events = << >>
    /\ release_db = << >>
    /\ osh \in {OpenScanHubHelper(jobs, target_branch) :
                    jobs \in JobViews, target_branch \in TargetBranches}

\* handle_scan, line 64.
FindBaseBuildJob ==
    /\ osh.pc = "find_base_build_job"
    /\ LET found == find_base_build_job(osh.jobs, osh.target_branch)
       IN  osh' = [osh EXCEPT !.base_build_job = found,
                              !.log = Append(@, Called("find_base_build_job", found # None)),
                              !.pc = IF found = None THEN "done" ELSE "get_base_srpm_model"]
    /\ UNCHANGED <<parser_vars, workers, hotness_events, release_db>>

\* handle_scan, lines 70-73.
GetBaseSrpmModel ==
    /\ osh.pc = "get_base_srpm_model"
    /\ \E successful \in SUBSET {"c1", "c2", "c3"} :
        LET found == get_base_srpm_model(successful)
        IN  osh' = [osh EXCEPT !.base_srpm_model = found,
                               !.log = Append(@, Called("get_base_srpm_model", found # None)),
                               !.pc = IF found = None THEN "done" ELSE "download_srpms"]
    /\ UNCHANGED <<parser_vars, workers, hotness_events, release_db>>

\* handle_scan, lines 75-79.
DownloadSrpms ==
    /\ osh.pc = "download_srpms"
    /\ \E base_ok \in BOOLEAN, srpm_ok \in BOOLEAN :
        LET downloaded == download_srpms(base_ok, srpm_ok)
        IN  osh' = [osh EXCEPT !.paths = downloaded.paths,
                               !.log = @ \o downloaded.calls,
                               !.pc = IF downloaded.paths = None THEN "done"
                                      ELSE "run_osh_build"]
    /\ UNCHANGED <<parser_vars, workers, hotness_events, release_db>>

\* handle_scan, lines 81-91.
RunOshBuild ==
    /\ osh.pc = "run_osh_build"
    /\ \E output \in Outputs :
        osh' = [osh EXCEPT !.output = output,
                           !.log = Append(@, Called("run_osh_build", output # << >>)),
                           !.pc = IF output = << >> THEN "done" ELSE "parse_dict_from_output"]
    /\ UNCHANGED <<parser_vars, workers, hotness_events, release_db>>

\* handle_scan, line 95.
ParseDictFromOutput ==
    /\ osh.pc = "parse_dict_from_output"
    /\ LET response == parse_dict_from_output(osh.output)
       IN  osh' = [osh EXCEPT !.response = response,
                              !.log = Append(@, Called("parse_dict_from_output",
                                                       ~response.raised)),
                              !.pc = IF response.raised THEN "raised" ELSE "add_scan"]
    /\ UNCHANGED <<parser_vars, workers, hotness_events, release_db>>

\* handle_scan, lines 99-105.
AddScan ==
    /\ osh.pc = "add_scan"
    /\ osh' = IF TruthyJson(osh.response.id)
              THEN [osh EXCEPT !.scan = Some(osh.response.id),
                               !.log = Append(@, Called("add_scan", TRUE)),
                               !.pc = "set_url"]
              ELSE [osh EXCEPT !.pc = "set_url"]
    /\ UNCHANGED <<parser_vars, workers, hotness_events, release_db>>

\* handle_scan, lines 107-111.
SetUrl ==
    /\ osh.pc = "set_url"
    /\ osh' = IF ~TruthyJson(osh.response.url) THEN [osh EXCEPT !.pc = "done"]
              ELSE IF osh.scan # None
              THEN [osh EXCEPT !.log = Append(@, Called("set_url", TRUE)), !.pc = "report"]
              ELSE [osh EXCEPT !.pc = "report"]
    /\ UNCHANGED <<parser_vars, workers, hotness_events, release_db>>

\* handle_scan, lines 113-119.
Report ==
    /\ osh.pc = "report"
    /\ osh' = [osh EXCEPT !.log = Append(@, Called("report:running", TRUE)), !.pc = "done"]
    /\ UNCHANGED <<parser_vars, workers, hotness_events, release_db>>

NextScan ==
    \/ FindBaseBuildJob
    \/ GetBaseSrpmModel
    \/ DownloadSrpms
    \/ RunOshBuild
    \/ ParseDictFromOutput
    \/ AddScan
    \/ SetUrl
    \/ Report

SpecScan == InitScan /\ [][NextScan]_vars


----------------------------------------------------------------------------
(* C29: the order of the steps of handle_scan.                              *)

\* The steps that must succeed, in the order of handle_scan.
RequiredSteps ==
    <<"find_base_build_job", "get_base_srpm_model", "download_srpm:base",
      "download_srpm:pr", "run_osh_build", "parse_dict_from_output">>

ScanCalls == {osh.log[k].call : k \in 1..Len(osh.log)}

\* handle_scan is past the place where it adds the scan record.
PastAddScan == osh.pc \in {"set_url", "report", "done"} /\ "parse_dict_from_output" \in ScanCalls

\* The order of handle_scan, where `ids` are the values of the response's id
\* that count as an id and `urls` those of its url that count as a url.
ScanProtocol(ids, urls) ==
    \* reporting comes last, after every required step succeeded in order
    /\ "report:running" \in ScanCalls =>
        /\ Len(osh.log) > Len(RequiredSteps)
        /\ \A k \in 1..Len(RequiredSteps) :
            osh.log[k] = Called(RequiredSteps[k], TRUE)
        /\ osh.response.url \in urls
        /\ osh.log[Len(osh.log)].call = "report:running"
    \* a failed step is the last thing that happened
    /\ \A k \in 1..Len(osh.log) : ~osh.log[k].ok => k = Len(osh.log)
    /\ (\E k \in 1..Len(osh.log) : ~osh.log[k].ok) =>
        /\ "report:running" \notin ScanCalls
        /\ osh.pc \in {"done", "raised"}
    \* the second download needs the first
    /\ "download_srpm:pr" \in ScanCalls => Called("download_srpm:base", TRUE) \in
                                              {osh.log[k] : k \in 1..Len(osh.log)}
    \* the scan record
    /\ "add_scan" \in ScanCalls => osh.response.id \in ids /\ osh.scan # None
    /\ (PastAddScan /\ osh.response.id \in ids) => "add_scan" \in ScanCalls
    /\ "set_url" \in ScanCalls => "add_scan" \in ScanCalls /\ osh.response.url \in urls

\* C29, as stated: handle_scan reports 'running' only after a base build job
\* and a base SRPM model were found, the base SRPM and then the SRPM of the
\* pull request were downloaded, run_osh_build returned output, and the
\* parsed response contains a url; a failed step is followed by no other
\* step and no report; a scan record is added exactly when the response has
\* an id; set_url is called only with a scan record and a url.
C29_AsStated == ScanProtocol(ResponseIds \ {Absent}, ResponseUrls \ {Absent})

\* C29, amended: the same, where the response has an id only when the id is
\* a true value: a response whose id is 0, null or empty adds no scan
\* record, and is still reported when it has a url.
C29_ScanProtocol ==
    ScanProtocol({id \in ResponseIds : TruthyJson(id)}, {url \in ResponseUrls : TruthyJson(url)})

\* A call that went through every step: scan record added, url set, status
\* reported, from an output whose JSON follows a line of text.
C29_Witness ==
    /\ osh # << >>
    /\ osh.pc = "done"
    /\ Len(osh.log) = Len(RequiredSteps) + 3
    /\ osh.log[Len(osh.log) - 2].call = "add_scan"
    /\ osh.log[Len(osh.log) - 1].call = "set_url"
    /\ osh.log[Len(osh.log)].call = "report:running"
    /\ Len(osh.output) = 2
    /\ osh.output[1].kind = "text"

\* A reported scan without a scan record: the response has a url and id 0.
C29_ReportedWithoutScanRecord ==
    /\ osh # << >>
    /\ "report:running" \in ScanCalls
    /\ "add_scan" \notin ScanCalls
    /\ osh.response.id = "int:0"

=============================================================================
